---- MODULE Spec2Model ----
(***************************************************************************)
(* Verification model of the Defold render/graphics core:                  *)
(*   - the asset handle table used by the WebGPU adapter for textures and  *)
(*     render targets (engine/graphics/src/webgpu/graphics_webgpu.cpp);    *)
(*   - the vertex streams the adapter enables for a vertex declaration;    *)
(*   - the material: attributes, constants, samplers, tag lists and tag    *)
(*     matching (engine/render/src/render/material.cpp).                   *)
(***************************************************************************)
EXTENDS Integers, Sequences, FiniteSets, TLC

VARIABLES
    \* ---- handle table (WebGPUContext::m_AssetHandleContainer) ----
    m_AssetHandleContainer, \* sequence of slots, slot i+1 holds opaque index i
    heap,                   \* live heap objects: object id -> Texture / RenderTarget
    nextId,                 \* next object identity handed out by `new`
    issued,                 \* history: object id -> handle returned at creation, and its class
    pc,                     \* "idle", or "deleting" inside WebGPUDeleteRenderTarget
    del_rt,                 \* the render target being deleted and the loop index
    justDeleted,            \* handles covered by the DeleteRenderTarget that just returned
    aborted,                \* an assert() failed: the process has stopped
    m_VertexStreams,        \* WebGPUContext::m_VertexStreams: stream index -> enabled stream
    protocol,               \* history: how Enable and Disable of declarations have alternated
    \* ---- material (dmRender::Material) ----
    built,                      \* NewMaterial has returned this material
    m_VertexAttributes,         \* dmArray<dmGraphics::VertexAttribute>
    m_MaterialAttributes,       \* dmArray<MaterialAttribute>
    m_MaterialAttributeValues,  \* dmArray<uint8_t>, the packed value buffer
    m_VertexDeclaration,        \* the streams of the current vertex declaration
    m_HeapOverrun,              \* a memcpy has written past the end of the value buffer
    lastCall,                   \* the call that produced this state
    again,                      \* the list of the call that is being repeated
    info,                       \* what the query in progress has returned to its caller
    m_Constants,                \* dmArray<RenderConstant>
    m_Samplers,                 \* dmArray<Sampler>
    m_NameHashToLocation,       \* dmHashTable64<HUniformLocation>, as a set of entries
    lastSet,                    \* the arguments of the last SetMaterialProgramConstant
    \* ---- material tag lists (RenderContext::m_MaterialTagLists) ----
    m_MaterialTagLists,         \* dmHashTable32<MaterialTagList>: list key -> tag list
    m_TagListsCapacity,         \* capacity of that table
    m_TagListKey,               \* Material::m_TagListKey
    registered,                 \* history: the tag lists registered, each with the key returned
    \* ---- program reflection (Program of the adapter) ----
    m_Uniforms,                 \* dmArray<ShaderBinding>: the elements and the capacity
    m_Attributes,               \* dmArray<ShaderBinding>: the elements and the capacity
    parse                       \* where the Program constructor is, and what the parser reported

handleVars == <<m_AssetHandleContainer, heap, nextId, issued, pc, del_rt,
                justDeleted, aborted>>

materialVars == <<built, m_VertexAttributes, m_MaterialAttributes,
                  m_MaterialAttributeValues, m_VertexDeclaration, m_HeapOverrun, lastCall,
                  again, info, m_Constants, m_Samplers, m_NameHashToLocation,
                  lastSet, m_MaterialTagLists, m_TagListsCapacity, m_TagListKey,
                  registered>>

tagVars == <<m_MaterialTagLists, m_TagListsCapacity, m_TagListKey, registered>>

constVars == <<m_Constants, m_Samplers, m_NameHashToLocation, lastSet>>

contextVars == <<handleVars, m_VertexStreams, protocol>>

programVars == <<m_Uniforms, m_Attributes, parse>>

vars == <<contextVars, materialVars, programVars>>

----------------------------------------------------------------------------
(* Bounds of the handle model *)
MaxObjects == 4          \* objects ever allocated with `new` in one behaviour
MaxStreams == 2          \* streams of one vertex declaration

----------------------------------------------------------------------------
(* Asset types and handle encoding *)
ASSET_TYPE_NONE          == 0
ASSET_TYPE_TEXTURE       == 1
ASSET_TYPE_RENDER_TARGET == 2
ASSET_TYPE_UNKNOWN       == 3   \* a tag no NewX call ever stores

MAX_BUFFER_COLOR_ATTACHMENTS == 4

HANDLE_TYPE_SHIFT == 16    \* handle = type tag * 2^k + opaque slot index
CONTAINER_GROW    == 2     \* slots added when the table is full

NULL == -1                 \* null pointer (object ids are >= 1)
EmptySlot == [ptr |-> NULL, type |-> ASSET_TYPE_NONE]

MakeAssetHandle(opaque, type) == type * HANDLE_TYPE_SHIFT + opaque
GetAssetType(asset_handle)    == asset_handle \div HANDLE_TYPE_SHIFT
GetOpaqueHandle(asset_handle) == asset_handle % HANDLE_TYPE_SHIFT

(* Store: the first free slot, growing the table when it is full. Returns   *)
(* the new table and the handle.                                            *)
FreeSlots(c) == {i \in 1..Len(c) : c[i] = EmptySlot}
MinOf(S) == CHOOSE x \in S : \A y \in S : x <= y
Grown(c) == IF FreeSlots(c) = {} THEN c \o [i \in 1..CONTAINER_GROW |-> EmptySlot] ELSE c

(* the same with a generation (here the object's number) in the handle *)
StoreAssetInContainer_Generation(c, ptr, type) ==
    LET g == Grown(c)
        i == MinOf(FreeSlots(g))
    IN  [container |-> [g EXCEPT ![i] = [ptr |-> ptr, type |-> type]],
         handle    |-> MakeAssetHandle(i - 1, type + 4 * ptr)]

StoreAssetInContainer(c, ptr, type) ==
    LET g == Grown(c)
        i == MinOf(FreeSlots(g))
    IN  [container |-> [g EXCEPT ![i] = [ptr |-> ptr, type |-> type]],
         handle    |-> MakeAssetHandle(i - 1, type)]

(* Resolve: null when out of range, slot empty, or stored tag differs.      *)
GetAssetFromContainer(c, type, asset_handle) ==
    LET i == GetOpaqueHandle(asset_handle) + 1
    IN  IF i > Len(c) THEN NULL
        ELSE IF c[i] = EmptySlot THEN NULL
        ELSE IF c[i].type # type THEN NULL
        ELSE c[i].ptr

(* Release: marks the slot free; the object itself is not touched.          *)
ContainerRelease(c, asset_handle) ==
    LET i == GetOpaqueHandle(asset_handle) + 1
    IN  IF i <= Len(c) THEN [c EXCEPT ![i] = EmptySlot] ELSE c

----------------------------------------------------------------------------
(* Heap objects *)
NoAttachments == [i \in 0..(MAX_BUFFER_COLOR_ATTACHMENTS - 1) |-> 0]
NewTextureObject == [kind |-> "Texture", m_ColorBufferTexture |-> NoAttachments]
NewRenderTargetObject(att) == [kind |-> "RenderTarget", m_ColorBufferTexture |-> att]

TagOfKind(kind) == IF kind = "Texture" THEN ASSET_TYPE_TEXTURE ELSE ASSET_TYPE_RENDER_TARGET

(* WebGPUIsAssetHandleValid *)
WebGPUIsAssetHandleValid_NoDispatch(c, asset_handle) ==
    IF asset_handle = 0 THEN FALSE
    ELSE GetAssetFromContainer(c, ASSET_TYPE_TEXTURE, asset_handle) # NULL
           \/ GetAssetFromContainer(c, ASSET_TYPE_RENDER_TARGET, asset_handle) # NULL

WebGPUIsAssetHandleValid(c, asset_handle) ==
    IF asset_handle = 0 THEN FALSE
    ELSE LET type == GetAssetType(asset_handle)
         IN  IF type = ASSET_TYPE_TEXTURE
                THEN GetAssetFromContainer(c, ASSET_TYPE_TEXTURE, asset_handle) # NULL
             ELSE IF type = ASSET_TYPE_RENDER_TARGET
                THEN GetAssetFromContainer(c, ASSET_TYPE_RENDER_TARGET, asset_handle) # NULL
             ELSE FALSE

IsValid(h) == WebGPUIsAssetHandleValid(m_AssetHandleContainer, h)

----------------------------------------------------------------------------
(* The mutable part of the context the texture/render-target calls touch.   *)
Ctx == [c |-> m_AssetHandleContainer, heap |-> heap, nextId |-> nextId, issued |-> issued]

Without(f, k) == [x \in (DOMAIN f) \ {k} |-> f[x]]
With(f, k, v) == [x \in (DOMAIN f) \cup {k} |-> IF x = k THEN v ELSE f[x]]

(* WebGPUNewTexture: `new Texture()`, then StoreAssetInContainer(.., tex,    *)
(* ASSET_TYPE_TEXTURE). Returns the updated context and the handle.         *)
NewTextureOp_WrongTag(st) ==
    LET tex == st.nextId
        r   == StoreAssetInContainer(st.c, tex, ASSET_TYPE_RENDER_TARGET)
    IN  [st |-> [c      |-> r.container,
                 heap   |-> With(st.heap, tex, NewTextureObject),
                 nextId |-> st.nextId + 1,
                 issued |-> With(st.issued, tex, [handle |-> r.handle, kind |-> "Texture"])],
         handle |-> r.handle]

NewTextureOp(st) ==
    LET tex == st.nextId
        r   == StoreAssetInContainer(st.c, tex, ASSET_TYPE_TEXTURE)
    IN  [st |-> [c      |-> r.container,
                 heap   |-> With(st.heap, tex, NewTextureObject),
                 nextId |-> st.nextId + 1,
                 issued |-> With(st.issued, tex, [handle |-> r.handle, kind |-> "Texture"])],
         handle |-> r.handle]

(* WebGPUDeleteTexture: resolve, assert(tex), delete tex, Release(texture). *)
(* ok = FALSE stands for the failed assert.                                 *)
DeleteTextureOp_NoRelease(st, texture) ==
    LET tex == GetAssetFromContainer(st.c, ASSET_TYPE_TEXTURE, texture)
    IN  IF tex = NULL THEN [ok |-> FALSE, st |-> st]
        ELSE [ok |-> TRUE,
              st |-> [st EXCEPT !.heap = Without(st.heap, tex)]]

DeleteTextureOp_NoAssert(st, texture) ==
    LET tex == GetAssetFromContainer(st.c, ASSET_TYPE_TEXTURE, texture)
    IN  [ok |-> TRUE,
         st |-> [st EXCEPT !.heap = Without(st.heap, tex),
                           !.c    = ContainerRelease(st.c, texture)]]

DeleteTextureOp(st, texture) ==
    LET tex == GetAssetFromContainer(st.c, ASSET_TYPE_TEXTURE, texture)
    IN  IF tex = NULL THEN [ok |-> FALSE, st |-> st]
        ELSE [ok |-> TRUE,
              st |-> [st EXCEPT !.heap = Without(st.heap, tex),
                                !.c    = ContainerRelease(st.c, texture)]]

(* WebGPUNewRenderTarget: the loop over the buffer types. Only the colour   *)
(* buffers get a texture of their own; depth and stencil are plain byte     *)
(* arrays and never enter the handle table.                                 *)
RECURSIVE NewRenderTargetLoop(_, _, _, _)
NewRenderTargetLoop(st, att, i, buffer_type_flags) ==
    IF i = MAX_BUFFER_COLOR_ATTACHMENTS THEN [st |-> st, att |-> att]
    ELSE IF i \in buffer_type_flags
         THEN LET r == NewTextureOp(st)
              IN  NewRenderTargetLoop(r.st, [att EXCEPT ![i] = r.handle], i + 1,
                                      buffer_type_flags)
         ELSE NewRenderTargetLoop(st, att, i + 1, buffer_type_flags)

NewRenderTargetOp(st, buffer_type_flags) ==
    LET rt == st.nextId
        l  == NewRenderTargetLoop([st EXCEPT !.nextId = rt + 1], NoAttachments, 0,
                                  buffer_type_flags)
        r  == StoreAssetInContainer(l.st.c, rt, ASSET_TYPE_RENDER_TARGET)
    IN  [st |-> [c      |-> r.container,
                 heap   |-> With(l.st.heap, rt, NewRenderTargetObject(l.att)),
                 nextId |-> l.st.nextId,
                 issued |-> With(l.st.issued, rt, [handle |-> r.handle, kind |-> "RenderTarget"])],
         handle |-> r.handle]

SetCtx(st) ==
    /\ m_AssetHandleContainer' = st.c
    /\ heap' = st.heap
    /\ nextId' = st.nextId
    /\ issued' = st.issued

Running == pc = "idle" /\ ~aborted

IssuedHandles == {issued[id].handle : id \in DOMAIN issued}

----------------------------------------------------------------------------
(* Actions of the handle table *)
WebGPUNewTexture ==
    /\ UNCHANGED <<m_VertexStreams, protocol, materialVars, programVars>>
    /\ Running
    /\ nextId <= MaxObjects
    /\ SetCtx(NewTextureOp(Ctx).st)
    /\ justDeleted' = {}
    /\ UNCHANGED <<pc, del_rt, aborted>>

WebGPUNewRenderTarget(buffer_type_flags) ==
    /\ UNCHANGED <<m_VertexStreams, protocol, materialVars, programVars>>
    /\ Running
    /\ nextId + Cardinality(buffer_type_flags) <= MaxObjects
    /\ SetCtx(NewRenderTargetOp(Ctx, buffer_type_flags).st)
    /\ justDeleted' = {}
    /\ UNCHANGED <<pc, del_rt, aborted>>

WebGPUDeleteTexture(texture) ==
    /\ UNCHANGED <<m_VertexStreams, protocol, materialVars, programVars>>
    /\ Running
    /\ LET r == DeleteTextureOp(Ctx, texture)
       IN  /\ SetCtx(r.st)
           /\ aborted' = ~r.ok
    /\ justDeleted' = {}
    /\ UNCHANGED <<pc, del_rt>>

(* WebGPUDeleteRenderTarget, statement by statement: resolve the render     *)
(* target, delete each colour attachment texture, then delete the object    *)
(* and release its slot. No other call runs in between.                     *)
Attachments(rt) == {heap[rt].m_ColorBufferTexture[i] :
                        i \in 0..(MAX_BUFFER_COLOR_ATTACHMENTS - 1)} \ {0}

DeleteRenderTarget_Begin(render_target) ==
    /\ UNCHANGED <<m_VertexStreams, protocol, materialVars, programVars>>
    /\ Running
    /\ LET rt == GetAssetFromContainer(m_AssetHandleContainer, ASSET_TYPE_RENDER_TARGET,
                                       render_target)
       IN  /\ rt # NULL     \* the code dereferences rt unchecked
           /\ del_rt' = [handle |-> render_target, rt |-> rt, i |-> 0,
                         covered |-> {render_target} \cup Attachments(rt)]
    /\ pc' = "deleting"
    /\ justDeleted' = {}
    /\ UNCHANGED <<m_AssetHandleContainer, heap, nextId, issued, aborted>>

DeleteRenderTarget_Attachment_Skipped ==
    /\ UNCHANGED <<m_VertexStreams, protocol, materialVars, programVars>>
    /\ pc = "deleting" /\ ~aborted
    /\ del_rt.i < MAX_BUFFER_COLOR_ATTACHMENTS
    /\ del_rt' = [del_rt EXCEPT !.i = @ + 1]
    /\ UNCHANGED <<m_AssetHandleContainer, heap, nextId, issued, aborted, pc, justDeleted>>

DeleteRenderTarget_Attachment ==
    /\ UNCHANGED <<m_VertexStreams, protocol, materialVars, programVars>>
    /\ pc = "deleting" /\ ~aborted
    /\ del_rt.i < MAX_BUFFER_COLOR_ATTACHMENTS
    /\ LET texture == heap[del_rt.rt].m_ColorBufferTexture[del_rt.i]
       IN  IF texture # 0
           THEN LET r == DeleteTextureOp(Ctx, texture)
                IN  /\ SetCtx(r.st)
                    /\ aborted' = ~r.ok
           ELSE UNCHANGED <<m_AssetHandleContainer, heap, nextId, issued, aborted>>
    /\ del_rt' = [del_rt EXCEPT !.i = @ + 1]
    /\ UNCHANGED <<pc, justDeleted>>

DeleteRenderTarget_Release_First ==
    /\ UNCHANGED <<m_VertexStreams, protocol, materialVars, programVars>>
    /\ pc = "deleting" /\ ~aborted
    /\ del_rt.i = 0
    /\ heap' = Without(heap, del_rt.rt)
    /\ m_AssetHandleContainer' = ContainerRelease(m_AssetHandleContainer, del_rt.handle)
    /\ pc' = "idle"
    /\ justDeleted' = del_rt.covered
    /\ UNCHANGED <<nextId, issued, aborted, del_rt>>

DeleteRenderTarget_Release ==
    /\ UNCHANGED <<m_VertexStreams, protocol, materialVars, programVars>>
    /\ pc = "deleting" /\ ~aborted
    /\ del_rt.i = MAX_BUFFER_COLOR_ATTACHMENTS
    /\ heap' = Without(heap, del_rt.rt)
    /\ m_AssetHandleContainer' = ContainerRelease(m_AssetHandleContainer, del_rt.handle)
    /\ pc' = "idle"
    /\ justDeleted' = del_rt.covered
    /\ UNCHANGED <<nextId, issued, aborted, del_rt>>

NoDelete == [handle |-> 0, rt |-> NULL, i |-> 0, covered |-> {}]

(* VertexStreamBuffer with no source: the stream is not enabled *)
FreeStream == [m_Source |-> NULL, m_Size |-> 0, m_Stride |-> 0]

(* No declaration is enabled, and so far every Enable has been followed by *)
(* the Disable of its declaration before the next Enable; `completed`     *)
(* tells whether that has happened at all.                                *)
NoneEnabled(completed) ==
    [paired |-> TRUE, on |-> FALSE, streams |-> <<>>, completed |-> completed]

(* An Enable has come before the Disable of the declaration enabled. *)
Unpaired == [paired |-> FALSE, on |-> FALSE, streams |-> <<>>, completed |-> FALSE]

(* dmArray(): no element, no capacity *)
EmptyArray == [data |-> <<>>, capacity |-> 0]

(* No Program has been constructed. *)
NoParse == [phase |-> "none", has_fp |-> FALSE, uniforms |-> <<>>, attributes |-> <<>>]

HandleInit ==
    /\ m_AssetHandleContainer = <<>>
    /\ heap = <<>>
    /\ nextId = 1
    /\ issued = <<>>
    /\ pc = "idle"
    /\ del_rt = NoDelete
    /\ justDeleted = {}
    /\ aborted = FALSE
    /\ m_VertexStreams = [i \in 0..(MaxStreams - 1) |-> FreeStream]
    /\ protocol = NoneEnabled(FALSE)
    /\ m_Uniforms = EmptyArray
    /\ m_Attributes = EmptyArray
    /\ parse = NoParse

ColorFlagSets == SUBSET (0..(MAX_BUFFER_COLOR_ATTACHMENTS - 1))

HandleNext ==
    \/ WebGPUNewTexture
    \/ \E flags \in ColorFlagSets : WebGPUNewRenderTarget(flags)
    \/ \E h \in IssuedHandles : WebGPUDeleteTexture(h)
    \/ \E h \in IssuedHandles : DeleteRenderTarget_Begin(h)
    \/ DeleteRenderTarget_Attachment
    \/ DeleteRenderTarget_Release


----------------------------------------------------------------------------
(* ======================= Material attribute store ======================= *)
(* Bounds of the material model *)
MaxAttributes == 2     \* attributes a reflected program exposes

(* Name hashes are opaque and compared for equality only. *)
AttributeNames == <<"position", "texcoord0", "color", "normal", "tangent">>
UnknownName    == "unknown_attribute"

INVALID_MATERIAL_ATTRIBUTE_INDEX == 255

(* TYPE_SIZE[]: the size in bytes of the scalar graphics types. *)
GetTypeSize(type) ==
    CASE type = "TYPE_BYTE"           -> 1
      [] type = "TYPE_UNSIGNED_BYTE"  -> 1
      [] type = "TYPE_SHORT"          -> 2
      [] type = "TYPE_UNSIGNED_SHORT" -> 2
      [] type = "TYPE_INT"            -> 4
      [] type = "TYPE_UNSIGNED_INT"   -> 4
      [] type = "TYPE_FLOAT"          -> 4

(* GetAttributeDataType: vectors and matrices of floats become FLOAT. *)
GetAttributeDataType(from_type) ==
    CASE from_type \in {"TYPE_FLOAT", "TYPE_FLOAT_VEC2", "TYPE_FLOAT_VEC3",
                        "TYPE_FLOAT_VEC4", "TYPE_FLOAT_MAT2", "TYPE_FLOAT_MAT3",
                        "TYPE_FLOAT_MAT4"}           -> "VertexAttribute::TYPE_FLOAT"
      [] from_type = "TYPE_BYTE"           -> "VertexAttribute::TYPE_BYTE"
      [] from_type = "TYPE_UNSIGNED_BYTE"  -> "VertexAttribute::TYPE_UNSIGNED_BYTE"
      [] from_type = "TYPE_SHORT"          -> "VertexAttribute::TYPE_SHORT"
      [] from_type = "TYPE_UNSIGNED_SHORT" -> "VertexAttribute::TYPE_UNSIGNED_SHORT"
      [] from_type = "TYPE_INT"            -> "VertexAttribute::TYPE_INT"
      [] from_type = "TYPE_UNSIGNED_INT"   -> "VertexAttribute::TYPE_UNSIGNED_INT"

(* dmGraphics::GetGraphicsType: the scalar graphics type of a data type. *)
GetGraphicsType(data_type) ==
    CASE data_type = "VertexAttribute::TYPE_FLOAT"          -> "TYPE_FLOAT"
      [] data_type = "VertexAttribute::TYPE_BYTE"           -> "TYPE_BYTE"
      [] data_type = "VertexAttribute::TYPE_UNSIGNED_BYTE"  -> "TYPE_UNSIGNED_BYTE"
      [] data_type = "VertexAttribute::TYPE_SHORT"          -> "TYPE_SHORT"
      [] data_type = "VertexAttribute::TYPE_UNSIGNED_SHORT" -> "TYPE_UNSIGNED_SHORT"
      [] data_type = "VertexAttribute::TYPE_INT"            -> "TYPE_INT"
      [] data_type = "VertexAttribute::TYPE_UNSIGNED_INT"   -> "TYPE_UNSIGNED_INT"

GetAttributeSemanticType(from_hash) ==
    CASE from_hash = "position"   -> "SEMANTIC_TYPE_POSITION"
      [] from_hash = "texcoord0"  -> "SEMANTIC_TYPE_TEXCOORD"
      [] from_hash = "texcoord1"  -> "SEMANTIC_TYPE_TEXCOORD"
      [] from_hash = "color"      -> "SEMANTIC_TYPE_COLOR"
      [] from_hash = "page_index" -> "SEMANTIC_TYPE_PAGE_INDEX"
      [] from_hash = "normal"     -> "SEMANTIC_TYPE_NORMAL"
      [] from_hash = "tangent"    -> "SEMANTIC_TYPE_TANGENT"
      [] OTHER                    -> "SEMANTIC_TYPE_NONE"

(* type_size(data_type) * element_count of one descriptor *)
AttributeByteSize(a) == GetTypeSize(GetGraphicsType(a.m_DataType)) * a.m_ElementCount

RECURSIVE SumByteSize(_, _)
SumByteSize(attributes, n) ==
    IF n = 0 THEN 0 ELSE SumByteSize(attributes, n - 1) + AttributeByteSize(attributes[n])

Min(a, b) == IF a < b THEN a ELSE b

(* CreateVertexDeclaration: one stream per attribute, in array order. *)
CreateVertexDeclaration(va) ==
    [i \in 1..Len(va) |->
        [m_NameHash  |-> va[i].m_NameHash,
         m_Size      |-> va[i].m_ElementCount,
         m_Type      |-> GetGraphicsType(va[i].m_DataType),
         m_Normalize |-> va[i].m_Normalize]]

(* m_ElementIds of an attribute CreateAttributes has sized but not written. *)
Uninitialised == "uninitialised"

(* The hash of no name. *)
ZeroHash == ""

(* FillElementIds: the hashes of the name followed by .x, .y, .z and .w *)
FillElementIds(name) ==
    <<name \o ".x", name \o ".y", name \o ".z", name \o ".w">>

(* CreateAttributes: descriptors and offsets from the program's reflection, *)
(* and a zeroed value buffer of the summed size.                            *)
CreateAttributes(program) ==
    LET va == [i \in 1..Len(program) |->
                 [m_NameHash        |-> program[i].name_hash,
                  m_SemanticType    |-> GetAttributeSemanticType(program[i].name_hash),
                  m_DataType        |-> GetAttributeDataType(program[i].type),
                  m_ElementCount    |-> program[i].element_count,
                  m_Normalize       |-> FALSE,
                  m_CoordinateSpace |-> "COORDINATE_SPACE_WORLD"]]
        ma == [i \in 1..Len(program) |->
                 [m_Location   |-> program[i].location,
                  m_ValueIndex |-> SumByteSize(va, i - 1),
                  m_ValueCount |-> program[i].num_values,
                  m_ElementIds |-> Uninitialised]]
    IN  [va |-> va, ma |-> ma,
         values |-> [k \in 1..SumByteSize(va, Len(va)) |-> 0]]

(* GetMaterialAttributeIndex: position (0-based) of the first attribute of  *)
(* that name, or INVALID_MATERIAL_ATTRIBUTE_INDEX.                          *)
GetMaterialAttributeIndex_LastOnMiss(va, name_hash) ==
    LET hits == {i \in 1..Len(va) : va[i].m_NameHash = name_hash}
    IN  IF hits # {} THEN MinOf(hits) - 1
        ELSE IF Len(va) > 0 THEN Len(va) - 1
        ELSE INVALID_MATERIAL_ATTRIBUTE_INDEX

GetMaterialAttributeIndex(va, name_hash) ==
    LET hits == {i \in 1..Len(va) : va[i].m_NameHash = name_hash}
    IN  IF hits = {} THEN INVALID_MATERIAL_ATTRIBUTE_INDEX ELSE MinOf(hits) - 1

(* First pass of SetMaterialProgramAttributes: copy the five descriptor     *)
(* fields of every incoming attribute that names an existing one.           *)
RECURSIVE OverrideDescriptors(_, _, _)
OverrideDescriptors(va, attributes, i) ==
    IF i > Len(attributes) THEN va
    ELSE LET in    == attributes[i]
             index == GetMaterialAttributeIndex(va, in.m_NameHash)
         IN  IF index = INVALID_MATERIAL_ATTRIBUTE_INDEX
             THEN OverrideDescriptors(va, attributes, i + 1)
             ELSE OverrideDescriptors(
                    [va EXCEPT ![index + 1] =
                        [@ EXCEPT !.m_DataType        = in.m_DataType,
                                  !.m_Normalize       = in.m_Normalize,
                                  !.m_ElementCount    = in.m_ElementCount,
                                  !.m_SemanticType    = in.m_SemanticType,
                                  !.m_CoordinateSpace = in.m_CoordinateSpace]],
                    attributes, i + 1)

UpdateAttributes(va, attributes) ==
    \E i \in 1..Len(attributes) :
        GetMaterialAttributeIndex(va, attributes[i].m_NameHash) # INVALID_MATERIAL_ATTRIBUTE_INDEX

(* Second pass: value indices are the running sum of the byte sizes. *)
ReadjustValueIndices_Stale(va, ma) == ma

ReadjustValueIndices(va, ma) ==
    [i \in 1..Len(ma) |-> [ma[i] EXCEPT !.m_ValueIndex = SumByteSize(va, i - 1)]]

(* dmArray SetCapacity + SetSize: the first min(old, new) bytes are kept,   *)
(* bytes added by a growth are whatever the allocator returned (fill).      *)
SetCapacityAndSize(values, size, fill) ==
    [k \in 1..size |-> IF k <= Len(values) THEN values[k] ELSE fill]

ResizeValues_KeepSize(values, size, fill) == values

ResizeValues_OffsetCapacity(values, size, fill) ==
    SetCapacityAndSize(values, Len(values) + size, fill)

ResizeValues(values, size, fill) == SetCapacityAndSize(values, size, fill)

(* memcpy(&values[value_index], bytes, n): the part inside the buffer. *)
MemCpy(values, value_index, bytes, n) ==
    [k \in 1..Len(values) |->
        IF k > value_index /\ k <= value_index + n THEN bytes[k - value_index]
        ELSE values[k]]

(* Third pass: copy the value bytes of every incoming attribute that names  *)
(* an existing one to that attribute's value index.                         *)
CopySize(in, material_attribute) ==
    Min(GetTypeSize(GetGraphicsType(in.m_DataType)) * in.m_ElementCount
            * material_attribute.m_ValueCount,
        Len(in.m_Values))

RECURSIVE CopyValues(_, _, _, _, _)
CopyValues(va, ma, st, attributes, i) ==
    IF i > Len(attributes) THEN st
    ELSE LET in    == attributes[i]
             index == GetMaterialAttributeIndex(va, in.m_NameHash)
         IN  IF index = INVALID_MATERIAL_ATTRIBUTE_INDEX
             THEN CopyValues(va, ma, st, attributes, i + 1)
             ELSE LET n   == CopySize(in, ma[index + 1])
                      at  == ma[index + 1].m_ValueIndex
                  IN  CopyValues(va, ma,
                        [values  |-> MemCpy(st.values, at, in.m_Values, n),
                         overrun |-> st.overrun \/ at + n > Len(st.values)],
                        attributes, i + 1)

(* Third pass, element ids: an incoming attribute that names an existing    *)
(* one and carries a name string rewrites that attribute's element ids.     *)
RECURSIVE FillIds(_, _, _, _)
FillIds(va, ma, attributes, i) ==
    IF i > Len(attributes) THEN ma
    ELSE LET in    == attributes[i]
             index == GetMaterialAttributeIndex(va, in.m_NameHash)
         IN  IF index = INVALID_MATERIAL_ATTRIBUTE_INDEX \/ in.m_Name = ZeroHash
             THEN FillIds(va, ma, attributes, i + 1)
             ELSE FillIds(va,
                          [ma EXCEPT ![index + 1].m_ElementIds = FillElementIds(in.m_Name)],
                          attributes, i + 1)

Material == [va |-> m_VertexAttributes, ma |-> m_MaterialAttributes,
             values |-> m_MaterialAttributeValues, vd |-> m_VertexDeclaration,
             overrun |-> m_HeapOverrun]

(* SetMaterialProgramAttributes. fill: what newly allocated bytes hold. *)
SetMaterialProgramAttributesOp(m, attributes, fill) ==
    IF Len(attributes) = 0 THEN m
    ELSE IF ~UpdateAttributes(m.va, attributes) THEN m
    ELSE LET va   == OverrideDescriptors(m.va, attributes, 1)
             ma   == ReadjustValueIndices(va, m.ma)
             vals == ResizeValues(m.values, SumByteSize(va, Len(va)), fill)
             cp   == CopyValues(va, ma, [values |-> vals, overrun |-> m.overrun],
                                attributes, 1)
         IN  [va |-> va, ma |-> FillIds(va, ma, attributes, 1), values |-> cp.values,
              vd |-> CreateVertexDeclaration(va), overrun |-> cp.overrun]

SetMaterial(m) ==
    /\ m_VertexAttributes' = m.va
    /\ m_MaterialAttributes' = m.ma
    /\ m_MaterialAttributeValues' = m.values
    /\ m_VertexDeclaration' = m.vd
    /\ m_HeapOverrun' = m.overrun

----------------------------------------------------------------------------
(* Inputs *)
ProgramAttributeShapes ==
    {[type |-> "TYPE_FLOAT", element_count |-> 1],
     [type |-> "TYPE_UNSIGNED_BYTE", element_count |-> 1]}

(* Every attribute of one program has the same array length num_values. *)
ProgramsOfSize(n) ==
    {[i \in 1..n |-> [name_hash     |-> AttributeNames[i],
                      type          |-> sh[i].type,
                      element_count |-> sh[i].element_count,
                      num_values    |-> nv,
                      location      |-> i - 1]] :
        sh \in [1..n -> ProgramAttributeShapes], nv \in {1, 2}}

Programs == UNION {ProgramsOfSize(n) : n \in 0..MaxAttributes}

(* The value bytes an incoming descriptor carries: byte k of the value of  *)
(* attribute `name` is a number that names the attribute and k.            *)
NameBase(name) ==
    CASE name = "position"  -> 16
      [] name = "texcoord0" -> 32
      [] OTHER              -> 48

ValueBytes(name, n) == [k \in 1..n |-> NameBase(name) + k]

(* The layouts an incoming descriptor asks for, with the number of value   *)
(* bytes it carries: more than the region for bytes, fewer than a          *)
(* two-element region for shorts.                                          *)
OverrideShapes ==
    {[type |-> "VertexAttribute::TYPE_BYTE",  element_count |-> 1, nbytes |-> 5],
     [type |-> "VertexAttribute::TYPE_BYTE",  element_count |-> 2, nbytes |-> 5],
     [type |-> "VertexAttribute::TYPE_SHORT", element_count |-> 1, nbytes |-> 3],
     [type |-> "VertexAttribute::TYPE_SHORT", element_count |-> 2, nbytes |-> 3]}
FillBytes == {0, 255}

Descriptor(name, type, count, nbytes) ==
    [m_NameHash        |-> name,
     m_Name            |-> IF name = UnknownName THEN ZeroHash ELSE name,
     m_DataType        |-> type,
     m_ElementCount    |-> count,
     m_Normalize       |-> TRUE,
     m_SemanticType    |-> "SEMANTIC_TYPE_NONE",
     m_CoordinateSpace |-> "COORDINATE_SPACE_LOCAL",
     m_Values          |-> ValueBytes(name, nbytes)]

InputDescriptors ==
    {Descriptor(name, sh.type, sh.element_count, sh.nbytes) :
        name \in {AttributeNames[1], AttributeNames[2]}, sh \in OverrideShapes}
    \cup {Descriptor(UnknownName, "VertexAttribute::TYPE_BYTE", 1, 1)}

(* A list names an attribute at most once. *)
AttributeLists ==
    {<<>>} \cup {<<d>> : d \in InputDescriptors}
           \cup {l \in InputDescriptors \X InputDescriptors :
                      l[1].m_NameHash # l[2].m_NameHash}

(* How a call's list relates to the material's attributes, by name. *)
Known(va, d) == \E i \in 1..Len(va) : va[i].m_NameHash = d.m_NameHash
CallKind(va, attributes) ==
    LET known == {i \in 1..Len(attributes) : Known(va, attributes[i])}
    IN  IF known = {} THEN "SetNoMatch"
        ELSE IF Cardinality(known) < Len(attributes) THEN "SetMixed"
        ELSE "SetMatch"
RepeatTags == {"SetFirst", "SetSecond"}

----------------------------------------------------------------------------
(* ================== Constants, samplers, uniform locations ============== *)
MaxUniforms == 3         \* uniforms a reflected program exposes
MaxValues   == 2         \* Vector4 values passed to SetMaterialProgramConstant

INVALID_UNIFORM_LOCATION == -1
NO_ELEMENT_INDEX == -1      \* ~0u: every bit set, read as a signed 32-bit number

(* The uniforms a program can expose: name hash, type, array length. *)
UniformPool ==
    {[name_hash |-> "tint",     type |-> "TYPE_FLOAT_VEC4", num_values |-> 1],
     [name_hash |-> "tint.x",   type |-> "TYPE_FLOAT_VEC4", num_values |-> 2],
     [name_hash |-> "texture0", type |-> "TYPE_SAMPLER_2D", num_values |-> 1],
     [name_hash |-> "texture1", type |-> "TYPE_SAMPLER_2D", num_values |-> 1]}

(* Reflection of a program: distinct uniforms, the location of a uniform is *)
(* its position in declaration order.                                       *)
UniformLists ==
    UNION {{[i \in 1..n |-> [name_hash  |-> f[i].name_hash,
                             type       |-> f[i].type,
                             num_values |-> f[i].num_values,
                             location   |-> i - 1]] :
               f \in {g \in [1..n -> UniformPool] :
                         \A a, b \in 1..n : a # b => g[a] # g[b]}} :
           n \in 0..MaxUniforms}

IsSamplerType(type) == type \in {"TYPE_SAMPLER_2D", "TYPE_SAMPLER_CUBE",
                                 "TYPE_SAMPLER_2D_ARRAY"}

(* GetProgramUniformCount: how many uniforms are constants, how many samplers *)
GetProgramUniformCount(uniforms) ==
    [constants_count |-> Len(SelectSeq(uniforms, LAMBDA u : ~IsSamplerType(u.type))),
     samplers_count  |-> Len(SelectSeq(uniforms, LAMBDA u : IsSamplerType(u.type)))]

(* Sampler(): a sampler before reflection has named it *)
DefaultSampler ==
    [m_NameHash |-> ZeroHash, m_Location |-> INVALID_UNIFORM_LOCATION,
     m_Type |-> "TYPE_SAMPLER_2D", m_UWrap |-> "TEXTURE_WRAP_CLAMP_TO_EDGE",
     m_MinFilter |-> "TEXTURE_FILTER_LINEAR"]

(* SetProgramConstantValues: one constant per plain uniform, one sampler per *)
(* sampler uniform, in declaration order, and every uniform's location.      *)
SetProgramConstantValues(uniforms, samplers) ==
    LET cs == SelectSeq(uniforms, LAMBDA u : ~IsSamplerType(u.type))
        ss == SelectSeq(uniforms, LAMBDA u : IsSamplerType(u.type))
    IN  [constants |-> [i \in 1..Len(cs) |->
                          [m_NameHash   |-> cs[i].name_hash,
                           m_Type       |-> "CONSTANT_TYPE_USER",
                           m_Location   |-> cs[i].location,
                           m_Values     |-> [k \in 1..cs[i].num_values |-> 0],
                           m_ElementIds |-> FillElementIds(cs[i].name_hash)]],
         samplers  |-> [i \in 1..Len(samplers) |->
                          [samplers[i] EXCEPT !.m_NameHash = ss[i].name_hash,
                                              !.m_Location = ss[i].location,
                                              !.m_Type     = ss[i].type]],
         locations |-> {[name_hash |-> uniforms[i].name_hash,
                         location  |-> uniforms[i].location] : i \in 1..Len(uniforms)}]

(* CreateConstants *)
CreateConstants(uniforms) ==
    LET count == GetProgramUniformCount(uniforms)
    IN  SetProgramConstantValues(uniforms,
            [i \in 1..count.samplers_count |-> DefaultSampler])

NoUniforms == <<>>

(* dmHashTable::Get on the name-hash-to-location table *)
LocationGet(table, name_hash) ==
    IF \E e \in table : e.name_hash = name_hash
    THEN (CHOOSE e \in table : e.name_hash = name_hash).location
    ELSE NULL

----------------------------------------------------------------------------
(* Actions of the material *)
NewMaterial(program, uniforms) ==
    /\ UNCHANGED <<contextVars, programVars, tagVars>>
    /\ ~built
    /\ UNCHANGED <<again, info, lastSet>>
    /\ LET c == CreateConstants(uniforms)
       IN  /\ m_Constants' = c.constants
           /\ m_Samplers' = c.samplers
           /\ m_NameHashToLocation' = c.locations
    /\ built' = TRUE
    /\ LET r == CreateAttributes(program)
       IN  SetMaterial([va |-> r.va, ma |-> r.ma, values |-> r.values,
                        vd |-> CreateVertexDeclaration(r.va), overrun |-> FALSE])
    /\ lastCall' = "NewMaterial"

SetMaterialProgramAttributes(attributes, fill) ==
    /\ UNCHANGED <<contextVars, programVars, tagVars>>
    /\ built /\ lastCall \notin RepeatTags /\ ~info.returned
    /\ SetMaterial(SetMaterialProgramAttributesOp(Material, attributes, fill))
    /\ lastCall' = CallKind(m_VertexAttributes, attributes)
    /\ UNCHANGED <<built, again, info, constVars>>

(* The same list passed twice in a row: the first call records the list,   *)
(* the second passes it again.                                             *)
SetFirst(attributes, fill) ==
    /\ UNCHANGED <<contextVars, programVars, tagVars>>
    /\ built /\ lastCall \notin RepeatTags /\ ~info.returned
    /\ SetMaterial(SetMaterialProgramAttributesOp(Material, attributes, fill))
    /\ again' = attributes
    /\ lastCall' = "SetFirst"
    /\ UNCHANGED <<built, info, constVars>>

SetSecond(fill) ==
    /\ UNCHANGED <<contextVars, programVars, tagVars>>
    /\ lastCall = "SetFirst"
    /\ SetMaterial(SetMaterialProgramAttributesOp(Material, again, fill))
    /\ lastCall' = "SetSecond"
    /\ UNCHANGED <<built, again, info, constVars>>

(* No SetMaterialProgramConstant has been made. *)
NoSet == [name_hash |-> ZeroHash, values |-> <<>>, count |-> 0]

(* No query is in progress. *)
NoInfo == [returned |-> FALSE, call |-> "none"]

MaterialInit ==
    /\ built = FALSE
    /\ m_VertexAttributes = <<>>
    /\ m_MaterialAttributes = <<>>
    /\ m_MaterialAttributeValues = <<>>
    /\ m_VertexDeclaration = <<>>
    /\ m_HeapOverrun = FALSE
    /\ lastCall = "none"
    /\ again = <<>>
    /\ info = NoInfo
    /\ m_Constants = <<>>
    /\ m_Samplers = <<>>
    /\ m_NameHashToLocation = {}
    /\ lastSet = NoSet
    /\ m_MaterialTagLists = <<>>
    /\ m_TagListsCapacity = 0
    /\ m_TagListKey = 0
    /\ registered = {}

(* The allocator's bytes matter only to a call that grows the buffer. *)
FillChoices(attributes) ==
    LET va == OverrideDescriptors(m_VertexAttributes, attributes, 1)
    IN  IF SumByteSize(va, Len(va)) > Len(m_MaterialAttributeValues)
        THEN FillBytes ELSE {0}

MaterialNext ==
    \/ \E program \in Programs : NewMaterial(program, NoUniforms)
    \/ \E attributes \in AttributeLists :
          \E fill \in FillChoices(attributes) :
             SetMaterialProgramAttributes(attributes, fill)

Init == HandleInit /\ MaterialInit

SpecMaterial == Init /\ [][MaterialNext]_vars

RepeatNext ==
    \/ MaterialNext
    \/ \E attributes \in AttributeLists :
          \E fill \in FillChoices(attributes) : SetFirst(attributes, fill)
    \/ \E fill \in FillChoices(again) : SetSecond(fill)

SpecRepeat == Init /\ [][RepeatNext]_vars

SpecHandles == Init /\ [][HandleNext]_vars

----------------------------------------------------------------------------
(* GetMaterialProgramAttributeInfo. The element ids of an attribute that    *)
(* only CreateAttributes has touched were never written: reading them       *)
(* yields whatever the allocation held (garbage).                           *)
ElementIdsRead(material_attribute, garbage) ==
    IF material_attribute.m_ElementIds = Uninitialised THEN garbage
    ELSE material_attribute.m_ElementIds

RECURSIVE GetMaterialProgramAttributeInfoOp(_, _, _, _, _)
GetMaterialProgramAttributeInfoOp(va, ma, name_hash, garbage, i) ==
    IF i > Len(va) THEN [returned |-> TRUE, call |-> "GetMaterialProgramAttributeInfo",
                         query |-> name_hash, found |-> FALSE]
    ELSE LET ids   == ElementIdsRead(ma[i], garbage)
             hits  == {elem_i \in 0..3 : ids[elem_i + 1] = name_hash}
             byname == va[i].m_NameHash = name_hash
         IN  IF byname \/ hits # {}
             THEN [returned            |-> TRUE,
                   call                |-> "GetMaterialProgramAttributeInfo",
                   query               |-> name_hash,
                   found               |-> TRUE,
                   m_AttributeNameHash |-> va[i].m_NameHash,
                   m_Attribute         |-> va[i],
                   m_ValuePtr          |-> ma[i].m_ValueIndex,
                   m_ElementIndex      |-> IF byname THEN 0 ELSE MinOf(hits),
                   m_ElementIds        |-> ids]
             ELSE GetMaterialProgramAttributeInfoOp(va, ma, name_hash, garbage, i + 1)

(* What four never-written element ids may hold. *)
GarbageIds ==
    {<<ZeroHash, ZeroHash, ZeroHash, ZeroHash>>,
     <<"position.y", "texcoord0", ZeroHash, UnknownName>>}

QueryHashes ==
    {AttributeNames[i] : i \in 1..MaxAttributes}
    \cup {FillElementIds(AttributeNames[i])[e] : i \in 1..MaxAttributes, e \in 1..4}
    \cup {UnknownName, ZeroHash}

GetMaterialProgramAttributeInfo(name_hash, garbage) ==
    /\ built /\ ~info.returned /\ lastCall \notin RepeatTags
    /\ info' = GetMaterialProgramAttributeInfoOp(m_VertexAttributes, m_MaterialAttributes,
                                                  name_hash, garbage, 1)
    /\ UNCHANGED <<contextVars, programVars, tagVars, built, m_VertexAttributes, m_MaterialAttributes,
                   m_MaterialAttributeValues, m_VertexDeclaration, m_HeapOverrun,
                   lastCall, again, constVars>>

(* The caller has used the result. *)
ReturnInfo ==
    /\ info.returned
    /\ info' = NoInfo
    /\ UNCHANGED <<contextVars, programVars, tagVars, built, m_VertexAttributes, m_MaterialAttributes,
                   m_MaterialAttributeValues, m_VertexDeclaration, m_HeapOverrun,
                   lastCall, again, constVars>>

(* Garbage matters only to a query that reads never-written ids. *)
GarbageChoices ==
    IF \E i \in 1..Len(m_MaterialAttributes) :
          m_MaterialAttributes[i].m_ElementIds = Uninitialised
    THEN GarbageIds ELSE {<<ZeroHash, ZeroHash, ZeroHash, ZeroHash>>}

QueryNext ==
    \/ MaterialNext
    \/ \E name_hash \in QueryHashes : \E garbage \in GarbageChoices :
          GetMaterialProgramAttributeInfo(name_hash, garbage)
    \/ ReturnInfo

SpecQuery == Init /\ [][QueryNext]_vars

----------------------------------------------------------------------------
(* Operations on constants and samplers *)

(* FindProgramConstantIndex: 1-based position of the constant, 0 if none *)
FindProgramConstantIndex(constants, name_hash) ==
    LET hits == {i \in 1..Len(constants) : constants[i].m_NameHash = name_hash}
    IN  IF hits = {} THEN 0 ELSE MinOf(hits)

(* SetProgramRenderConstant: the value list of the named constant becomes   *)
(* values[0..count); no constant of that name: nothing happens.             *)
SetProgramRenderConstant(constants, name_hash, values, count) ==
    LET index == FindProgramConstantIndex(constants, name_hash)
    IN  IF index = 0 THEN constants
        ELSE [constants EXCEPT ![index].m_Values = SubSeq(values, 1, count)]

(* the same writing the first constant, whatever the name *)
SetMaterialProgramConstantOp_FirstConstant(constants, name_hash, values, count) ==
    IF Len(constants) = 0 THEN constants
    ELSE SetProgramRenderConstant(constants, constants[1].m_NameHash, values, count)

SetMaterialProgramConstantOp(constants, name_hash, values, count) ==
    SetProgramRenderConstant(constants, name_hash, values, count)

(* ApplyMaterialConstants: the arguments of the SetProgramConstant calls,   *)
(* one per constant, in array order.                                        *)
(* the same starting the loop at the second constant *)
ApplyMaterialConstantsOp_SkipFirst(constants) ==
    [i \in 1..(Len(constants) - 1) |->
        [location |-> constants[i + 1].m_Location,
         type     |-> constants[i + 1].m_Type,
         constant |-> [m_NameHash |-> constants[i + 1].m_NameHash,
                       m_Values   |-> constants[i + 1].m_Values]]]

ApplyMaterialConstantsOp(constants) ==
    [i \in 1..Len(constants) |->
        [location |-> constants[i].m_Location,
         type     |-> constants[i].m_Type,
         constant |-> [m_NameHash |-> constants[i].m_NameHash,
                       m_Values   |-> constants[i].m_Values]]]

(* GetMaterialProgramConstantInfo *)
ConstantInfo(name_hash, found, constant_id, element_index, array_size) ==
    [returned |-> TRUE, call |-> "GetMaterialProgramConstantInfo", query |-> name_hash,
     found |-> found, constant_id |-> constant_id, element_index |-> element_index,
     array_size |-> array_size]

RECURSIVE ConstantInfoLoop(_, _, _)
ConstantInfoLoop(constants, name_hash, i) ==
    IF i > Len(constants)
    THEN ConstantInfo(name_hash, FALSE, ZeroHash, NO_ELEMENT_INDEX, 0)
    ELSE LET c    == constants[i]
             hits == {elem_i \in 0..3 : c.m_ElementIds[elem_i + 1] = name_hash}
         IN  IF c.m_NameHash = name_hash
             THEN ConstantInfo(name_hash, TRUE, c.m_NameHash, NO_ELEMENT_INDEX, Len(c.m_Values))
             ELSE IF hits # {}
             THEN ConstantInfo(name_hash, TRUE, c.m_NameHash, MinOf(hits), Len(c.m_Values))
             ELSE ConstantInfoLoop(constants, name_hash, i + 1)

(* the same without the reset of the element index before the loop *)
GetMaterialProgramConstantInfoOp_NoReset(constants, name_hash) ==
    IF name_hash = ZeroHash
    THEN [returned |-> TRUE, call |-> "GetMaterialProgramConstantInfo",
          query |-> name_hash, found |-> FALSE]
    ELSE LET r == ConstantInfoLoop(constants, name_hash, 1)
         IN  IF r.found /\ r.element_index = NO_ELEMENT_INDEX
             THEN [r EXCEPT !.element_index = 0] ELSE r

GetMaterialProgramConstantInfoOp(constants, name_hash) ==
    IF name_hash = ZeroHash
    THEN [returned |-> TRUE, call |-> "GetMaterialProgramConstantInfo",
          query |-> name_hash, found |-> FALSE]
    ELSE ConstantInfoLoop(constants, name_hash, 1)

(* SetProgramSampler: the sampler of that name takes the wrap and filter    *)
(* state; no sampler of that name: false, nothing happens.                  *)
SetProgramSampler(samplers, name_hash, unit, u_wrap, min_filter) ==
    LET hits == {i \in 1..Len(samplers) : samplers[i].m_NameHash = name_hash}
    IN  IF hits = {} THEN [ok |-> FALSE, samplers |-> samplers]
        ELSE [ok |-> TRUE,
              samplers |-> [samplers EXCEPT ![MinOf(hits)] =
                               [@ EXCEPT !.m_UWrap = u_wrap, !.m_MinFilter = min_filter]]]

(* the same addressing the sampler by its unit, whatever its name *)
SetMaterialSamplerOp_ByUnit(samplers, name_hash, unit, u_wrap, min_filter) ==
    IF unit < Len(samplers)
    THEN SetProgramSampler(samplers, samplers[unit + 1].m_NameHash, unit, u_wrap, min_filter)
    ELSE [ok |-> FALSE, samplers |-> samplers]

SetMaterialSamplerOp(samplers, name_hash, unit, u_wrap, min_filter) ==
    SetProgramSampler(samplers, name_hash, unit, u_wrap, min_filter)

GetMaterialSamplerNameHashOp(samplers, unit) ==
    IF unit < Len(samplers) THEN samplers[unit + 1].m_NameHash ELSE ZeroHash

GetMaterialConstantLocationOp(table, name_hash) ==
    LET location == LocationGet(table, name_hash)
    IN  IF location # NULL THEN location ELSE INVALID_UNIFORM_LOCATION

(* Inputs of the constant and sampler operations *)
ConstantQueryHashes == {"tint", "tint.x", "tint.x.w", "texture0", "nosuch", ZeroHash}
SetConstantHashes   == {"tint", "tint.x", "nosuch"}
SetSamplerHashes    == {"texture0", "texture1", "nosuch"}
ValueArrays == {[k \in 1..MaxValues |-> k], [k \in 1..MaxValues |-> MaxValues + 1 - k]}

attributeVars == <<built, m_VertexAttributes, m_MaterialAttributes,
                   m_MaterialAttributeValues, m_VertexDeclaration, m_HeapOverrun,
                   lastCall, again>>

SetMaterialProgramConstant(name_hash, values, count) ==
    /\ built /\ ~info.returned
    /\ m_Constants' = SetMaterialProgramConstantOp(m_Constants, name_hash, values, count)
    /\ lastSet' = [name_hash |-> name_hash, values |-> values, count |-> count]
    /\ info' = [returned |-> TRUE, call |-> "SetMaterialProgramConstant"]
    /\ UNCHANGED <<contextVars, programVars, tagVars, attributeVars, m_Samplers, m_NameHashToLocation>>

ApplyMaterialConstants ==
    /\ built /\ ~info.returned
    /\ info' = [returned |-> TRUE, call |-> "ApplyMaterialConstants",
                calls |-> ApplyMaterialConstantsOp(m_Constants)]
    /\ UNCHANGED <<contextVars, programVars, tagVars, attributeVars, constVars>>

GetMaterialProgramConstantInfo(name_hash) ==
    /\ built /\ ~info.returned
    /\ info' = GetMaterialProgramConstantInfoOp(m_Constants, name_hash)
    /\ UNCHANGED <<contextVars, programVars, tagVars, attributeVars, constVars>>

SetMaterialSampler(name_hash, unit, u_wrap, min_filter) ==
    /\ built /\ ~info.returned
    /\ LET r == SetMaterialSamplerOp(m_Samplers, name_hash, unit, u_wrap, min_filter)
       IN  /\ m_Samplers' = r.samplers
           /\ info' = [returned |-> TRUE, call |-> "SetMaterialSampler",
                       query |-> name_hash, result |-> r.ok]
    /\ UNCHANGED <<contextVars, programVars, tagVars, attributeVars, m_Constants, m_NameHashToLocation, lastSet>>

GetMaterialSamplerNameHash(unit) ==
    /\ built /\ ~info.returned
    /\ info' = [returned |-> TRUE, call |-> "GetMaterialSamplerNameHash",
                unit |-> unit, result |-> GetMaterialSamplerNameHashOp(m_Samplers, unit)]
    /\ UNCHANGED <<contextVars, programVars, tagVars, attributeVars, constVars>>

GetMaterialConstantLocation(name_hash) ==
    /\ built /\ ~info.returned
    /\ info' = [returned |-> TRUE, call |-> "GetMaterialConstantLocation",
                query |-> name_hash,
                result |-> GetMaterialConstantLocationOp(m_NameHashToLocation, name_hash)]
    /\ UNCHANGED <<contextVars, programVars, tagVars, attributeVars, constVars>>

ConstantsNext ==
    \/ \E program \in ProgramsOfSize(0) :
          \E uniforms \in UniformLists : NewMaterial(program, uniforms)
    \/ \E name_hash \in SetConstantHashes :
          \E values \in ValueArrays :
             \E count \in 1..MaxValues :
                SetMaterialProgramConstant(name_hash, values, count)
    \/ ApplyMaterialConstants
    \/ \E name_hash \in ConstantQueryHashes : GetMaterialProgramConstantInfo(name_hash)
    \/ \E name_hash \in SetSamplerHashes :
          SetMaterialSampler(name_hash, 0, "TEXTURE_WRAP_REPEAT", "TEXTURE_FILTER_NEAREST")
    \/ \E unit \in 0..MaxUniforms : GetMaterialSamplerNameHash(unit)
    \/ \E name_hash \in ConstantQueryHashes : GetMaterialConstantLocation(name_hash)
    \/ ReturnInfo

SpecConstants == Init /\ [][ConstantsNext]_vars

----------------------------------------------------------------------------
(* Material tag lists *)

HashModulus == 21       \* the 32-bit key space, scaled down so that keys collide
MAX_MATERIAL_TAG_COUNT == 32

(* The tag lists callers register *)
TagSequences == {<<>>, <<12>>, <<3>>, <<12, 3>>, <<3, 12>>, <<3, 3>>}

ListKeys == 0..(HashModulus - 1)

(* dmHashBuffer32: a key computed from the bytes of the buffer and nothing  *)
(* else; the empty buffer hashes to 0.                                      *)
RECURSIVE HashBytes(_, _)
HashBytes(tags, n) ==
    IF n = 0 THEN 0 ELSE (HashBytes(tags, n - 1) * 3 + tags[n]) % HashModulus

dmHashBuffer32(tags, tag_count) == HashBytes(tags, tag_count)

(* dmHashTable::Put *)
TablePut(table, key, value) ==
    [k \in (DOMAIN table) \cup {key} |-> IF k = key THEN value ELSE table[k]]

(* the same with the two arguments of SetCapacity taken for each other *)
RegisterMaterialTagListOp_TableSizeAsCapacity(lists, capacity, tag_count, tags) ==
    LET list_key == dmHashBuffer32(tags, tag_count)
        taglist  == [m_Tags |-> SubSeq(tags, 1, tag_count), m_Count |-> tag_count]
        full     == Cardinality(DOMAIN lists) = capacity
    IN  IF list_key \in DOMAIN lists
        THEN [list_key |-> list_key, lists |-> lists, capacity |-> capacity,
              abort |-> FALSE]
        ELSE [list_key |-> list_key,
              lists    |-> TablePut(lists, list_key, taglist),
              capacity |-> IF full THEN (capacity + 8) * 2 ELSE capacity,
              abort    |-> tag_count > MAX_MATERIAL_TAG_COUNT]

(* the same without the early return: an existing entry is overwritten *)
RegisterMaterialTagListOp_Overwrite(lists, capacity, tag_count, tags) ==
    LET list_key == dmHashBuffer32(tags, tag_count)
        taglist  == [m_Tags |-> SubSeq(tags, 1, tag_count), m_Count |-> tag_count]
        full     == Cardinality(DOMAIN lists) = capacity
    IN  [list_key |-> list_key,
         lists    |-> TablePut(lists, list_key, taglist),
         capacity |-> IF full THEN capacity + 8 ELSE capacity,
         abort    |-> tag_count > MAX_MATERIAL_TAG_COUNT]

(* the same with keys handed out in order of registration *)
RegisterMaterialTagListOp_KeyByOrder(lists, capacity, tag_count, tags) ==
    LET list_key == Cardinality(DOMAIN lists) % HashModulus
        taglist  == [m_Tags |-> SubSeq(tags, 1, tag_count), m_Count |-> tag_count]
        full     == Cardinality(DOMAIN lists) = capacity
    IN  IF list_key \in DOMAIN lists
        THEN [list_key |-> list_key, lists |-> lists, capacity |-> capacity,
              abort |-> FALSE]
        ELSE [list_key |-> list_key,
              lists    |-> TablePut(lists, list_key, taglist),
              capacity |-> IF full THEN capacity + 8 ELSE capacity,
              abort    |-> tag_count > MAX_MATERIAL_TAG_COUNT]

RegisterMaterialTagListOp(lists, capacity, tag_count, tags) ==
    LET list_key == dmHashBuffer32(tags, tag_count)
        taglist  == [m_Tags |-> SubSeq(tags, 1, tag_count), m_Count |-> tag_count]
        full     == Cardinality(DOMAIN lists) = capacity
    IN  IF list_key \in DOMAIN lists
        THEN [list_key |-> list_key, lists |-> lists, capacity |-> capacity,
              abort |-> FALSE]
        ELSE [list_key |-> list_key,
              lists    |-> TablePut(lists, list_key, taglist),
              capacity |-> IF full THEN capacity + 8 ELSE capacity,
              abort    |-> tag_count > MAX_MATERIAL_TAG_COUNT]

(* the same reading the entry without the null check *)
GetMaterialTagListOp_NoNullCheck(lists, list_key) ==
    IF list_key \in DOMAIN lists
    THEN [abort |-> FALSE, m_Count |-> lists[list_key].m_Count,
          m_Tags |-> lists[list_key].m_Tags]
    ELSE [abort |-> TRUE, m_Count |-> 0, m_Tags |-> <<>>]

GetMaterialTagListOp(lists, list_key) ==
    IF list_key \in DOMAIN lists
    THEN [abort |-> FALSE, m_Count |-> lists[list_key].m_Count,
          m_Tags |-> lists[list_key].m_Tags]
    ELSE [abort |-> FALSE, m_Count |-> 0, m_Tags |-> <<>>]

constantsAndAttributes == <<built, m_VertexAttributes, m_MaterialAttributes,
                            m_MaterialAttributeValues, m_VertexDeclaration,
                            m_HeapOverrun, again, constVars>>

(* what has been registered: each list with the key its first registration *)
(* returned and the capacity of the registry at that return                 *)
Remember(history, tags, r) ==
    IF \E e \in history : e.tags = tags THEN history
    ELSE history \cup {[tags |-> tags, key |-> r.list_key, capacity |-> r.capacity]}

RegisterMaterialTagList(tags) ==
    /\ ~info.returned
    /\ LET r == RegisterMaterialTagListOp(m_MaterialTagLists, m_TagListsCapacity,
                                          Len(tags), tags)
       IN  /\ m_MaterialTagLists' = r.lists
           /\ m_TagListsCapacity' = r.capacity
           /\ registered' = Remember(registered, tags, r)
           /\ info' = [returned |-> TRUE, call |-> "RegisterMaterialTagList",
                       tags |-> tags, result |-> r.list_key, abort |-> r.abort]
    /\ UNCHANGED <<contextVars, programVars, constantsAndAttributes, lastCall, m_TagListKey>>

GetMaterialTagList(list_key) ==
    /\ ~info.returned
    /\ LET r == GetMaterialTagListOp(m_MaterialTagLists, list_key)
       IN  info' = [returned |-> TRUE, call |-> "GetMaterialTagList",
                    list_key |-> list_key, abort |-> r.abort,
                    m_Count |-> r.m_Count, m_Tags |-> r.m_Tags]
    /\ UNCHANGED <<contextVars, programVars, constantsAndAttributes, lastCall, tagVars>>

SetMaterialTags(tags) ==
    /\ built /\ ~info.returned
    /\ LET r == RegisterMaterialTagListOp(m_MaterialTagLists, m_TagListsCapacity,
                                          Len(tags), tags)
       IN  /\ m_MaterialTagLists' = r.lists
           /\ m_TagListsCapacity' = r.capacity
           /\ registered' = Remember(registered, tags, r)
           /\ m_TagListKey' = r.list_key
    /\ lastCall' = "SetMaterialTags"
    /\ UNCHANGED <<contextVars, programVars, constantsAndAttributes, info>>

ClearMaterialTags ==
    /\ built /\ ~info.returned
    /\ m_TagListKey' = 0
    /\ lastCall' = "ClearMaterialTags"
    /\ UNCHANGED <<contextVars, programVars, constantsAndAttributes, info, m_MaterialTagLists,
                   m_TagListsCapacity, registered>>

TagsNext ==
    \/ \E program \in ProgramsOfSize(0) : NewMaterial(program, NoUniforms)
    \/ \E tags \in TagSequences : RegisterMaterialTagList(tags)
    \/ \E list_key \in ListKeys : GetMaterialTagList(list_key)
    \/ \E tags \in TagSequences : SetMaterialTags(tags)
    \/ ClearMaterialTags
    \/ ReturnInfo

SpecTags == Init /\ [][TagsNext]_vars

(* A registry that fills up: callers register lists of one tag each. Those *)
(* are interchangeable (the key of <<k>> is k), so they are numbered in the *)
(* order of their first registration. One more list has the key of <<1>>.   *)
MaxLists == 17

CollidingList == <<HashModulus + 1>>

GrowSequences == {<<k>> : k \in 1..MaxLists} \cup {CollidingList}

IsRegistered(tags) == \E e \in registered : e.tags = tags

InOrderOfFirstUse(tags) ==
    \/ tags = CollidingList
    \/ \A k \in 1..(tags[1] - 1) : IsRegistered(<<k>>)

GrowNext ==
    \/ \E tags \in GrowSequences : InOrderOfFirstUse(tags) /\ RegisterMaterialTagList(tags)
    \/ \E list_key \in ListKeys : GetMaterialTagList(list_key)
    \/ ReturnInfo

SpecGrow == Init /\ [][GrowNext]_vars

----------------------------------------------------------------------------
(* Tag matching *)

MaxTagCount == 3
TagValues   == {1, 3, 5}

MatchLists == UNION {[1..n -> TagValues] : n \in 0..MaxTagCount}

(* the loop over the query tags: t and last_hit as in the code, 0-based *)
RECURSIVE MatchLoop(_, _, _, _, _, _)
MatchLoop(material_tag_count, material_tags, tag_count, tags, t, last_hit) ==
    IF t >= tag_count THEN tag_count > 0
    ELSE LET hits == {mt \in last_hit..(material_tag_count - 1) :
                          tags[t + 1] = material_tags[mt + 1]}
         IN  IF hits = {} THEN FALSE
             ELSE MatchLoop(material_tag_count, material_tags, tag_count, tags,
                            t + 1, MinOf(hits) + 1)

RECURSIVE MatchLoop_Restart(_, _, _, _, _)
MatchLoop_Restart(material_tag_count, material_tags, tag_count, tags, t) ==
    IF t >= tag_count THEN tag_count > 0
    ELSE IF \E mt \in 0..(material_tag_count - 1) : tags[t + 1] = material_tags[mt + 1]
         THEN MatchLoop_Restart(material_tag_count, material_tags, tag_count, tags, t + 1)
         ELSE FALSE

(* the same with every inner scan starting at index 0 *)
MatchMaterialTagsOp_RestartScan(material_tag_count, material_tags, tag_count, tags) ==
    MatchLoop_Restart(material_tag_count, material_tags, tag_count, tags, 0)

(* the same with last_hit = mt: the tag that matched is scanned again *)
RECURSIVE MatchLoop_SameIndex(_, _, _, _, _, _)
MatchLoop_SameIndex(material_tag_count, material_tags, tag_count, tags, t, last_hit) ==
    IF t >= tag_count THEN tag_count > 0
    ELSE LET hits == {mt \in last_hit..(material_tag_count - 1) :
                          tags[t + 1] = material_tags[mt + 1]}
         IN  IF hits = {} THEN FALSE
             ELSE MatchLoop_SameIndex(material_tag_count, material_tags, tag_count, tags,
                                      t + 1, MinOf(hits))

MatchMaterialTagsOp_SameIndex(material_tag_count, material_tags, tag_count, tags) ==
    MatchLoop_SameIndex(material_tag_count, material_tags, tag_count, tags, 0, 0)

(* the same returning true after the loop *)
MatchMaterialTagsOp_ReturnTrue(material_tag_count, material_tags, tag_count, tags) ==
    tag_count = 0 \/ MatchLoop(material_tag_count, material_tags, tag_count, tags, 0, 0)

MatchMaterialTagsOp(material_tag_count, material_tags, tag_count, tags) ==
    MatchLoop(material_tag_count, material_tags, tag_count, tags, 0, 0)

everythingButInfo == <<contextVars, programVars, tagVars, constantsAndAttributes, lastCall>>

MatchMaterialTags(material_tags, tags) ==
    /\ ~info.returned
    /\ info' = [returned |-> TRUE, call |-> "MatchMaterialTags",
                material_tags |-> material_tags, tags |-> tags,
                result |-> MatchMaterialTagsOp(Len(material_tags), material_tags,
                                               Len(tags), tags)]
    /\ UNCHANGED everythingButInfo

MatchNext ==
    \/ \E material_tags \in MatchLists :
          \E tags \in MatchLists : MatchMaterialTags(material_tags, tags)
    \/ ReturnInfo

SpecMatch == Init /\ [][MatchNext]_vars

----------------------------------------------------------------------------
(* Vertex declarations of the adapter *)

UINT16 == 65536          \* stride is a uint16_t in WebGPUEnableVertexDeclaration

StreamTypes == <<"TYPE_BYTE", "TYPE_UNSIGNED_BYTE", "TYPE_SHORT", "TYPE_UNSIGNED_SHORT",
                 "TYPE_INT", "TYPE_UNSIGNED_INT", "TYPE_FLOAT">>

(* type - dmGraphics::TYPE_BYTE *)
TypeOffset(type) == (CHOOSE i \in 1..Len(StreamTypes) : StreamTypes[i] = type) - 1

TYPE_SIZE == <<1, 1, 2, 2, 4, 4, 4>>

(* The streams callers declare: three elements of each type, or no element *)
StreamShapes ==
    {[m_Type |-> StreamTypes[i], m_Size |-> 3] : i \in 1..Len(StreamTypes)}
        \cup {[m_Type |-> "TYPE_FLOAT", m_Size |-> 0]}

(* VertexStreamDeclaration: the streams in declaration order *)
StreamDeclarations == UNION {[1..n -> StreamShapes] : n \in 0..MaxStreams}

(* the first loop of WebGPUEnableVertexDeclaration *)
RECURSIVE EnableStride(_, _)
EnableStride(streams, n) ==
    IF n = 0 THEN 0
    ELSE (EnableStride(streams, n - 1)
            + streams[n].m_Size * TYPE_SIZE[TypeOffset(streams[n].m_Type) + 1]) % UINT16

(* EnableVertexStream on slot `stream`; vertex_buffer is the offset into vb *)
EnableVertexStream(slots, stream, size, type, stride, vertex_buffer) ==
    [slots EXCEPT ![stream] = [m_Source |-> vertex_buffer,
                               m_Size   |-> size * TYPE_SIZE[TypeOffset(type) + 1],
                               m_Stride |-> stride]]

(* the second loop: i is 0-based, offset the running byte offset *)
RECURSIVE EnableLoop(_, _, _, _, _)
EnableLoop(slots, streams, stride, i, offset) ==
    IF i >= Len(streams) THEN [abort |-> FALSE, slots |-> slots]
    ELSE LET stream == streams[i + 1]
         IN  IF stream.m_Size > 0
             THEN IF slots[i].m_Source # NULL
                  THEN [abort |-> TRUE, slots |-> slots]
                  ELSE EnableLoop(EnableVertexStream(slots, i, stream.m_Size,
                                                     stream.m_Type, stride, offset),
                                  streams, stride, i + 1,
                                  offset + stream.m_Size
                                             * TYPE_SIZE[TypeOffset(stream.m_Type) + 1])
             ELSE EnableLoop(slots, streams, stride, i + 1, offset)

(* the same with every stream padded to a multiple of 4 bytes *)
WebGPUEnableVertexDeclarationOp_Aligned(slots, streams) ==
    LET padded == [i \in 1..Len(streams) |->
                      [streams[i] EXCEPT !.m_Size = ((@ + 3) \div 4) * 4]]
    IN  EnableLoop(slots, padded, EnableStride(padded, Len(padded)), 0, 0)

WebGPUEnableVertexDeclarationOp(slots, streams) ==
    EnableLoop(slots, streams, EnableStride(streams, Len(streams)), 0, 0)

(* the same leaving m_Source as it is *)
WebGPUDisableVertexDeclarationOp_KeepsSource(slots, streams) ==
    [i \in DOMAIN slots |->
        IF i < Len(streams) /\ streams[i + 1].m_Size > 0
        THEN [slots[i] EXCEPT !.m_Size = 0]
        ELSE slots[i]]

(* DisableVertexStream for every stream of the declaration, sized or not *)
WebGPUDisableVertexDeclarationOp_All(slots, streams) ==
    [i \in DOMAIN slots |->
        IF i < Len(streams)
        THEN [slots[i] EXCEPT !.m_Size = 0, !.m_Source = NULL]
        ELSE slots[i]]

(* DisableVertexStream for every stream of the declaration with a size *)
WebGPUDisableVertexDeclarationOp(slots, streams) ==
    [i \in DOMAIN slots |->
        IF i < Len(streams) /\ streams[i + 1].m_Size > 0
        THEN [slots[i] EXCEPT !.m_Size = 0, !.m_Source = NULL]
        ELSE slots[i]]

RECURSIVE WebGPUGetVertexDeclarationStrideOp(_, _)
WebGPUGetVertexDeclarationStrideOp(streams, n) ==
    IF n = 0 THEN 0
    ELSE WebGPUGetVertexDeclarationStrideOp(streams, n - 1)
            + GetTypeSize(streams[n].m_Type) * streams[n].m_Size

handlesOnly == <<m_AssetHandleContainer, heap, nextId, issued, pc, del_rt, justDeleted>>

WebGPUEnableVertexDeclaration(streams) ==
    /\ ~aborted /\ ~info.returned
    /\ LET r == WebGPUEnableVertexDeclarationOp(m_VertexStreams, streams)
       IN  /\ m_VertexStreams' = r.slots
           /\ aborted' = r.abort
           /\ info' = [returned |-> TRUE, call |-> "EnableVertexDeclaration",
                       streams |-> streams, abort |-> r.abort]
    /\ protocol' = IF protocol.paired /\ ~protocol.on
                   THEN [protocol EXCEPT !.on = TRUE, !.streams = streams]
                   ELSE Unpaired
    /\ UNCHANGED <<handlesOnly, programVars, tagVars, constantsAndAttributes, lastCall>>

(* The renderer disables the declaration it has enabled for the draw call. *)
IsEnabled(streams) ==
    \A i \in DOMAIN m_VertexStreams :
        (i < Len(streams) /\ streams[i + 1].m_Size > 0) =>
             /\ m_VertexStreams[i].m_Source # NULL
             /\ m_VertexStreams[i].m_Size =
                   streams[i + 1].m_Size * TYPE_SIZE[TypeOffset(streams[i + 1].m_Type) + 1]

WebGPUDisableVertexDeclaration(streams) ==
    /\ ~aborted /\ ~info.returned
    /\ IsEnabled(streams)
    /\ m_VertexStreams' = WebGPUDisableVertexDeclarationOp(m_VertexStreams, streams)
    /\ info' = [returned |-> TRUE, call |-> "DisableVertexDeclaration",
                streams |-> streams]
    /\ protocol' = IF protocol.on /\ protocol.streams = streams
                   THEN NoneEnabled(TRUE)
                   ELSE protocol
    /\ UNCHANGED <<handleVars, programVars, tagVars, constantsAndAttributes, lastCall>>

WebGPUGetVertexDeclarationStride(streams) ==
    /\ ~aborted /\ ~info.returned
    /\ info' = [returned |-> TRUE, call |-> "GetVertexDeclarationStride",
                streams |-> streams,
                stride |-> WebGPUGetVertexDeclarationStrideOp(streams, Len(streams))]
    /\ UNCHANGED everythingButInfo

StreamsNext ==
    \/ \E streams \in StreamDeclarations : WebGPUEnableVertexDeclaration(streams)
    \/ \E streams \in StreamDeclarations : WebGPUDisableVertexDeclaration(streams)
    \/ \E streams \in StreamDeclarations : WebGPUGetVertexDeclarationStride(streams)
    \/ ReturnInfo

SpecStreams == Init /\ [][StreamsNext]_vars

----------------------------------------------------------------------------
(* Program reflection *)

MaxBindings == 17        \* bindings of one kind the parser reports for one program
UNIFORMS_CAPACITY == 16  \* m_Uniforms.SetCapacity(16)
BINDINGS_GROW     == 16  \* binding_array->OffsetCapacity(16)

(* dmArray *)
Full(array) == Len(array.data) = array.capacity

SetCapacity(array, capacity) ==
    [data |-> SubSeq(array.data, 1, Min(Len(array.data), capacity)),
     capacity |-> capacity]

OffsetCapacity(array, offset) == SetCapacity(array, array.capacity + offset)

Push(array, element) ==
    IF Full(array) THEN array
    ELSE [array EXCEPT !.data = Append(@, element)]

(* the same with the array emptied when it has to grow *)
WebGPUShaderResourceCallbackOp_ResetOnGrow(binding_array, name, type, size) ==
    LET grown   == IF Full(binding_array)
                   THEN SetCapacity(EmptyArray, binding_array.capacity + BINDINGS_GROW)
                   ELSE binding_array
        binding == [m_Name |-> name, m_Index |-> Len(grown.data), m_Type |-> type,
                    m_Size |-> size, m_Stride |-> GetTypeSize(type)]
    IN  Push(grown, binding)

WebGPUShaderResourceCallbackOp(binding_array, name, type, size) ==
    LET grown   == IF Full(binding_array)
                   THEN OffsetCapacity(binding_array, BINDINGS_GROW)
                   ELSE binding_array
        binding == [m_Name |-> name, m_Index |-> Len(grown.data), m_Type |-> type,
                    m_Size |-> size, m_Stride |-> GetTypeSize(type)]
    IN  Push(grown, binding)

notProgram == <<contextVars, materialVars>>

(* Program(vp, fp): the constructor up to the first parse *)
WebGPUNewProgram(has_vp, has_fp) ==
    /\ parse.phase \in {"none", "done"}
    /\ m_Uniforms' = SetCapacity(EmptyArray, UNIFORMS_CAPACITY)
    /\ m_Attributes' = EmptyArray
    /\ parse' = [phase |-> IF has_vp THEN "vp_attributes"
                           ELSE IF has_fp THEN "fp_uniforms" ELSE "done",
                 has_fp |-> has_fp, uniforms |-> <<>>, attributes |-> <<>>]
    /\ UNCHANGED notProgram

(* the name the parser reports: the shader it came from and its rank there *)
ReportedName(phase, n) == [shader |-> phase, rank |-> n]

(* GLSLAttributeParse reports one more attribute of the vertex shader *)
ReportAttribute ==
    /\ parse.phase = "vp_attributes"
    /\ Len(parse.attributes) < MaxBindings
    /\ LET name == ReportedName(parse.phase, Len(parse.attributes))
       IN  /\ m_Attributes' =
                 WebGPUShaderResourceCallbackOp(m_Attributes, name, "TYPE_FLOAT", 1)
           /\ parse' = [parse EXCEPT !.attributes = Append(@, name)]
    /\ UNCHANGED <<m_Uniforms, notProgram>>

(* GLSLUniformParse reports one more uniform of the shader being parsed *)
ReportUniform ==
    /\ parse.phase \in {"vp_uniforms", "fp_uniforms"}
    /\ Len(parse.uniforms) < MaxBindings
    /\ LET name == ReportedName(parse.phase, Len(parse.uniforms))
       IN  /\ m_Uniforms' =
                 WebGPUShaderResourceCallbackOp(m_Uniforms, name, "TYPE_FLOAT", 1)
           /\ parse' = [parse EXCEPT !.uniforms = Append(@, name)]
    /\ UNCHANGED <<m_Attributes, notProgram>>

(* the parse in progress returns; the constructor goes on *)
ParseReturns ==
    /\ parse.phase \in {"vp_attributes", "vp_uniforms", "fp_uniforms"}
    /\ parse' = [parse EXCEPT !.phase =
                    CASE parse.phase = "vp_attributes" -> "vp_uniforms"
                      [] parse.phase = "vp_uniforms" ->
                            IF parse.has_fp THEN "fp_uniforms" ELSE "done"
                      [] parse.phase = "fp_uniforms" -> "done"]
    /\ UNCHANGED <<m_Uniforms, m_Attributes, notProgram>>

ProgramNext ==
    \/ \E has_vp, has_fp \in BOOLEAN : WebGPUNewProgram(has_vp, has_fp)
    \/ ReportAttribute
    \/ ReportUniform
    \/ ParseReturns

SpecProgram == Init /\ [][ProgramNext]_vars

----------------------------------------------------------------------------
(* Vertex and index buffers: SetVertexBufferSubData, SetIndexBufferSubData *)

(* A uint32_t as its two 16-bit halves, so that sums wrap at 2^32 exactly. *)
U32(hi, lo) == [hi |-> hi, lo |-> lo]

(* a + b as the uint32_t the addition yields *)
Add32(a, b) ==
    LET lo == a.lo + b.lo
    IN  U32((a.hi + b.hi + lo \div UINT16) % UINT16, lo % UINT16)

(* a <= b on uint32_t *)
Leq32(a, b) == a.hi < b.hi \/ (a.hi = b.hi /\ a.lo <= b.lo)

(* The buffers callers have made: up to MaxBufferSize bytes, all 0. *)
MaxBufferSize == 2

NewBuffer(size) == [m_Size |-> U32(0, size), m_Buffer |-> [i \in 1..size |-> 0]]

Buffers == {NewBuffer(size) : size \in 0..MaxBufferSize}

(* The offsets and sizes callers pass: small ones, and the largest ones. *)
Words == {U32(0, n) : n \in 0..(MaxBufferSize + 1)}
            \cup {U32(UINT16 - 1, UINT16 - k) : k \in 1..(MaxBufferSize + 1)}

(* data: a null pointer, or bytes that are all 1 *)
DataPointers == {"null", "bytes"}

(* memcpy(&m_Buffer[offset], data, size): the bytes it writes inside the   *)
(* buffer, and whether it writes bytes that are not the buffer's           *)
MemCpyAt(buffer, offset, size) ==
    LET inside == offset.hi = 0 /\ size.hi = 0
                     /\ offset.lo + size.lo <= Len(buffer.m_Buffer)
    IN  [outside  |-> ~inside /\ (size.hi > 0 \/ size.lo > 0),
         m_Buffer |-> IF inside
                      THEN [i \in 1..Len(buffer.m_Buffer) |->
                               IF offset.lo < i /\ i <= offset.lo + size.lo
                               THEN 1 ELSE buffer.m_Buffer[i]]
                      ELSE buffer.m_Buffer]

WebGPUSetVertexBufferSubDataOp(vb, offset, size, data) ==
    IF Leq32(Add32(offset, size), vb.m_Size) /\ data # "null"
    THEN [copied |-> TRUE] @@ MemCpyAt(vb, offset, size)
    ELSE [copied |-> FALSE, outside |-> FALSE, m_Buffer |-> vb.m_Buffer]

WebGPUSetIndexBufferSubDataOp(ib, offset, size, data) ==
    IF Leq32(Add32(offset, size), ib.m_Size) /\ data # "null"
    THEN [copied |-> TRUE] @@ MemCpyAt(ib, offset, size)
    ELSE [copied |-> FALSE, outside |-> FALSE, m_Buffer |-> ib.m_Buffer]

(* What a call leaves behind. A memcpy that leaves the buffer is undefined: *)
(* the process may stop, and the bytes of the buffer may be anything.       *)
SubDataOutcome(call, buffer, offset, size, data, r) ==
    IF r.outside
    THEN \E crashed \in BOOLEAN :
         \E bytes \in [1..Len(buffer.m_Buffer) -> {0, 1}] :
            info' = [returned |-> TRUE, call |-> call, buffer |-> buffer,
                     offset |-> offset, size |-> size, data |-> data,
                     copied |-> r.copied, outside |-> TRUE, crashed |-> crashed,
                     m_Buffer |-> bytes]
    ELSE info' = [returned |-> TRUE, call |-> call, buffer |-> buffer,
                  offset |-> offset, size |-> size, data |-> data,
                  copied |-> r.copied, outside |-> FALSE, crashed |-> FALSE,
                  m_Buffer |-> r.m_Buffer]

WebGPUSetVertexBufferSubData(buffer, offset, size, data) ==
    /\ ~info.returned
    /\ SubDataOutcome("SetVertexBufferSubData", buffer, offset, size, data,
                      WebGPUSetVertexBufferSubDataOp(buffer, offset, size, data))
    /\ UNCHANGED everythingButInfo

WebGPUSetIndexBufferSubData(buffer, offset, size, data) ==
    /\ ~info.returned
    /\ SubDataOutcome("SetIndexBufferSubData", buffer, offset, size, data,
                      WebGPUSetIndexBufferSubDataOp(buffer, offset, size, data))
    /\ UNCHANGED everythingButInfo

BuffersNext ==
    \/ \E buffer \in Buffers : \E offset, size \in Words : \E data \in DataPointers :
          WebGPUSetVertexBufferSubData(buffer, offset, size, data)
    \/ \E buffer \in Buffers : \E offset, size \in Words : \E data \in DataPointers :
          WebGPUSetIndexBufferSubData(buffer, offset, size, data)
    \/ ReturnInfo

SpecBuffers == Init /\ [][BuffersNext]_vars

----------------------------------------------------------------------------
(* Properties of the handle table *)
AssetTypes == {ASSET_TYPE_NONE, ASSET_TYPE_TEXTURE, ASSET_TYPE_RENDER_TARGET,
               ASSET_TYPE_UNKNOWN}
Live       == DOMAIN heap
Released   == (DOMAIN issued) \ Live
HandleOf(id) == issued[id].handle
TypeOf(id)   == TagOfKind(issued[id].kind)
Resolve(type, h) == GetAssetFromContainer(m_AssetHandleContainer, type, h)
SlotTaken(h) == \E id \in Live : GetOpaqueHandle(HandleOf(id)) = GetOpaqueHandle(h)
ProbeHandles == {MakeAssetHandle(i, t) : i \in 0..(MaxObjects + CONTAINER_GROW),
                                         t \in AssetTypes}

\* C1: every stored resource resolves, with the type it was stored with, to
\* itself until its handle is released; after the release the handle resolves
\* to null for as long as no later Store has taken the slot.
C1_ResolveStoreRelease ==
    \A id \in DOMAIN issued :
        /\ id \in Live => Resolve(TypeOf(id), HandleOf(id)) = id
        /\ (id \in Released /\ ~SlotTaken(HandleOf(id)))
              => Resolve(TypeOf(id), HandleOf(id)) = NULL

C1_Witness ==
    /\ \E id \in Released : ~SlotTaken(HandleOf(id))
    /\ \E id \in Live : issued[id].kind = "Texture"
    /\ \E id \in Live : issued[id].kind = "RenderTarget"

\* C2: a live handle resolved with a type other than the one it was stored
\* with yields null; handles whose slot is out of range or empty yield null
\* for every type.
C2_TypeMismatchIsNull ==
    /\ \A id \in Live : \A t \in AssetTypes \ {TypeOf(id)} :
           Resolve(t, HandleOf(id)) = NULL
    /\ \A h \in ProbeHandles : ~SlotTaken(h) => \A t \in AssetTypes : Resolve(t, h) = NULL

C2_Witness ==
    /\ \E id \in Live : issued[id].kind = "Texture"
    /\ \E id \in Live : issued[id].kind = "RenderTarget"
    /\ \E h \in ProbeHandles : GetOpaqueHandle(h) >= Len(m_AssetHandleContainer)
    /\ \E h \in ProbeHandles : GetOpaqueHandle(h) < Len(m_AssetHandleContainer) /\ ~SlotTaken(h)

\* C3: when DeleteRenderTarget has returned, neither the render target handle
\* nor any of its colour attachment texture handles is valid.
C3_DeletedRenderTargetInvalid ==
    \A h \in justDeleted : ~IsValid(h)

C3_Witness ==
    /\ pc = "idle" /\ ~aborted
    /\ Cardinality(justDeleted) >= 3

\* C4: a handle is stable while its resource lives: no step changes what a
\* live handle resolves to, and no two live resources share a handle.
UniqueHandles ==
    \A a, b \in Live : a # b => HandleOf(a) # HandleOf(b)

StableStep ==
    \A id \in Live \cap DOMAIN heap' :
        /\ issued'[id] = issued[id]
        /\ GetAssetFromContainer(m_AssetHandleContainer', TypeOf(id), HandleOf(id))
             = Resolve(TypeOf(id), HandleOf(id))

C4_HandleStable == []UniqueHandles /\ [][StableStep]_vars

C4_Witness ==
    /\ Len(m_AssetHandleContainer) > CONTAINER_GROW       \* the table has grown
    /\ Released # {}                                       \* something was released
    /\ Cardinality(Live) >= 2

\* C5: IsAssetHandleValid(h) is true exactly for the handles of live
\* resources: false for 0, for released handles, for handles carrying another
\* type tag than the slot's, and for tags that are neither texture nor
\* render target.
C5_IsValidExactlyLive ==
    \A h \in ProbeHandles :
        IsValid(h) <=> (\E id \in Live : HandleOf(id) = h)

C5_Witness ==
    /\ \E id \in Live :
          /\ IsValid(HandleOf(id))
          /\ ~IsValid(MakeAssetHandle(GetOpaqueHandle(HandleOf(id)), ASSET_TYPE_UNKNOWN))
          /\ issued[id].kind = "Texture"
          /\ ~IsValid(MakeAssetHandle(GetOpaqueHandle(HandleOf(id)), ASSET_TYPE_RENDER_TARGET))
    /\ \E id \in Released : ~IsValid(HandleOf(id))
    /\ ~IsValid(0)

----------------------------------------------------------------------------
(* Properties of the material attribute store *)
Layout == <<m_VertexAttributes, m_MaterialAttributes, m_MaterialAttributeValues,
            m_VertexDeclaration>>
NamesOf(va) == [i \in 1..Len(va) |-> va[i].m_NameHash]
Region(i) == [k \in 1..AttributeByteSize(m_VertexAttributes[i]) |->
                 m_MaterialAttributeValues[m_MaterialAttributes[i].m_ValueIndex + k]]

\* C6: after NewMaterial and any sequence of SetMaterialProgramAttributes
\* calls the packed value buffer is as long as the sum over the attributes of
\* type_size(data_type) * element_count.
C6_BufferSizeIsSum ==
    built => Len(m_MaterialAttributeValues)
                = SumByteSize(m_VertexAttributes, Len(m_VertexAttributes))

C6_Witness ==
    /\ lastCall = "SetMatch"
    /\ Len(m_VertexAttributes) = 2
    /\ m_VertexAttributes[1].m_DataType = "VertexAttribute::TYPE_SHORT"
    /\ m_VertexAttributes[1].m_ElementCount = 2
    /\ m_VertexAttributes[2].m_DataType = "VertexAttribute::TYPE_FLOAT"
    /\ Len(m_MaterialAttributeValues) = 8

\* C7: the value index of the first attribute is 0 and the value index of
\* each next attribute is the previous one plus the previous attribute's
\* type_size * element_count, also after an override changed an earlier
\* attribute's data type or element count.
C7_ValueIndexContiguous ==
    /\ Len(m_MaterialAttributes) = Len(m_VertexAttributes)
    /\ Len(m_MaterialAttributes) > 0 => m_MaterialAttributes[1].m_ValueIndex = 0
    /\ \A i \in 1..(Len(m_MaterialAttributes) - 1) :
          m_MaterialAttributes[i + 1].m_ValueIndex
             = m_MaterialAttributes[i].m_ValueIndex
                  + AttributeByteSize(m_VertexAttributes[i])

C7_Witness ==
    /\ lastCall = "SetMatch"
    /\ Len(m_MaterialAttributes) = 2
    /\ m_VertexAttributes[1].m_DataType = "VertexAttribute::TYPE_SHORT"
    /\ m_VertexAttributes[1].m_ElementCount = 1
    /\ m_MaterialAttributes[2].m_ValueIndex = 2

\* C8: after an override changed an attribute's element count or data type,
\* no attribute's region of the packed buffer exposes a byte that was written
\* for another attribute or for another offset of its own value: every byte
\* of a region is the attribute's own value byte for that offset, an
\* initialised (zero) byte or a byte of a fresh allocation. Stated for
\* programs without attribute arrays (value count 1), where no copy exceeds
\* the region it is made to.
C8_NoStaleBytes ==
    (built /\ \A i \in 1..Len(m_MaterialAttributes) :
                 m_MaterialAttributes[i].m_ValueCount = 1)
    => \A i \in 1..Len(m_VertexAttributes) :
          \A k \in 1..AttributeByteSize(m_VertexAttributes[i]) :
             Region(i)[k] \in {0, NameBase(m_VertexAttributes[i].m_NameHash) + k}
                                \cup FillBytes

\* C9: passing the same descriptor list a second time leaves the packed
\* buffer, the value indices, the descriptors and the vertex declaration as
\* the first call left them.
C9_Idempotent ==
    [][lastCall' = "SetSecond" => UNCHANGED Layout]_vars

C9_Witness ==
    /\ lastCall = "SetSecond"
    /\ Len(again) = 2
    /\ CallKind(m_VertexAttributes, again) = "SetMatch"
    /\ Len(m_MaterialAttributeValues) = 3

\* C10: no call adds, removes or reorders attributes; a call whose list is
\* empty or names no attribute of the material leaves descriptors, value
\* indices, buffer and vertex declaration unchanged; a descriptor that names
\* no attribute is skipped, the call acting as if the list held the others.
C10_Step ==
    /\ built => /\ NamesOf(m_VertexAttributes') = NamesOf(m_VertexAttributes)
                /\ Len(m_MaterialAttributes') = Len(m_MaterialAttributes)
                /\ NamesOf(m_VertexDeclaration') = NamesOf(m_VertexDeclaration)
    /\ lastCall' = "SetNoMatch" => UNCHANGED Layout
    /\ lastCall' = "SetMixed" =>
          \E d \in InputDescriptors : \E fill \in FillBytes :
             /\ Known(m_VertexAttributes, d)
             /\ LET r == SetMaterialProgramAttributesOp(Material, <<d>>, fill)
                IN  Layout' = <<r.va, r.ma, r.values, r.vd>>

C10_NoNewAttributes == [][C10_Step]_vars

C10_Witness ==
    /\ lastCall = "SetMixed"
    /\ Len(m_VertexAttributes) = 2
    /\ m_VertexAttributes[2].m_DataType = "VertexAttribute::TYPE_SHORT"

C10_WitnessNoMatch ==
    /\ lastCall = "SetNoMatch"
    /\ \E i \in 1..Len(m_VertexAttributes) : m_VertexAttributes[i].m_Normalize

\* C11: right after NewMaterial, GetMaterialProgramAttributeInfo on an
\* attribute's name hash finds that attribute, with its descriptor and a
\* value pointer at its value index; on the hash of the attribute's i-th
\* sub-element name (.x .y .z .w) it finds the same attribute with element
\* index i; on a hash that is neither, it finds nothing.
IsNameOrElementId(q) ==
    \E i \in 1..Len(m_VertexAttributes) :
        \/ q = m_VertexAttributes[i].m_NameHash
        \/ \E e \in 1..4 : q = FillElementIds(m_VertexAttributes[i].m_NameHash)[e]

C11_AttributeInfo ==
    (info.call = "GetMaterialProgramAttributeInfo" /\ lastCall = "NewMaterial") =>
        /\ \A i \in 1..Len(m_VertexAttributes) :
              /\ info.query = m_VertexAttributes[i].m_NameHash =>
                    /\ info.found
                    /\ info.m_Attribute = m_VertexAttributes[i]
                    /\ info.m_ValuePtr = m_MaterialAttributes[i].m_ValueIndex
              /\ \A e \in 0..3 :
                    info.query = FillElementIds(m_VertexAttributes[i].m_NameHash)[e + 1] =>
                       /\ info.found
                       /\ info.m_AttributeNameHash = m_VertexAttributes[i].m_NameHash
                       /\ info.m_ElementIndex = e
        /\ ~IsNameOrElementId(info.query) => ~info.found

(* Constants whose name is q, and constants owning q as a sub-element id *)
NamedBy(q) == {i \in 1..Len(m_Constants) : m_Constants[i].m_NameHash = q}

OwnersOf(q) ==
    {i \in 1..Len(m_Constants) : \E e \in 1..4 : m_Constants[i].m_ElementIds[e] = q}

(* C12: GetMaterialProgramConstantInfo returns the constant named name_hash *)
(* with element index ~0 whenever one exists, even when another constant    *)
(* has name_hash among its sub-element ids; a hash that is only a           *)
(* sub-element id returns the owning constant and the sub-index 0..3; the   *)
(* hash 0 and a hash matching nothing are not found.                        *)
C12_NameBeforeElementIds ==
    info.call = "GetMaterialProgramConstantInfo" =>
        LET q == info.query
        IN  IF q = ZeroHash \/ (NamedBy(q) = {} /\ OwnersOf(q) = {})
            THEN ~info.found
            ELSE IF NamedBy(q) # {}
            THEN /\ info.found
                 /\ info.constant_id = q
                 /\ info.element_index = NO_ELEMENT_INDEX
            ELSE /\ info.found
                 /\ info.element_index \in 0..3
                 /\ \E i \in OwnersOf(q) :
                       /\ info.constant_id = m_Constants[i].m_NameHash
                       /\ m_Constants[i].m_ElementIds[info.element_index + 1] = q

(* C12 as the code has it: the first constant in array order that matches   *)
(* name_hash, by its name or by one of its 4 sub-element ids, is returned;  *)
(* a match by name gives element index ~0, a match by sub-element id gives  *)
(* the sub-index 0..3; the hash 0 and a hash matching nothing are not found.*)
C12_FirstMatchInArrayOrder ==
    info.call = "GetMaterialProgramConstantInfo" =>
        LET q       == info.query
            matches == NamedBy(q) \cup OwnersOf(q)
        IN  IF q = ZeroHash \/ matches = {}
            THEN ~info.found
            ELSE LET c == m_Constants[MinOf(matches)]
                 IN  /\ info.found
                     /\ info.constant_id = c.m_NameHash
                     /\ info.array_size = Len(c.m_Values)
                     /\ IF c.m_NameHash = q
                        THEN info.element_index = NO_ELEMENT_INDEX
                        ELSE /\ info.element_index \in 0..3
                             /\ c.m_ElementIds[info.element_index + 1] = q

(* a hash that names one constant and is a sub-element id of an earlier one *)
C12_Witness ==
    /\ info.call = "GetMaterialProgramConstantInfo"
    /\ NamedBy(info.query) # {}
    /\ OwnersOf(info.query) # {}
    /\ info.found
    /\ info.element_index = 0

(* C13: SetMaterialProgramConstant with a name no constant has changes      *)
(* nothing and reports no error; with the name of a constant it replaces    *)
(* that constant's value list by values[0..count) and leaves every other    *)
(* constant, every sampler and every location as they were.                 *)
C13_Step ==
    (~info.returned /\ info'.call = "SetMaterialProgramConstant") =>
        LET hits == NamedBy(lastSet'.name_hash)
        IN  /\ Len(m_Constants') = Len(m_Constants)
            /\ hits = {} => m_Constants' = m_Constants
            /\ \A i \in 1..Len(m_Constants) :
                  IF i \in hits
                  THEN m_Constants'[i] =
                          [m_Constants[i] EXCEPT
                              !.m_Values = SubSeq(lastSet'.values, 1, lastSet'.count)]
                  ELSE m_Constants'[i] = m_Constants[i]
            /\ UNCHANGED <<m_Samplers, m_NameHashToLocation>>
            /\ ~aborted'

C13_SetConstantUnknownIsNoOp == [][C13_Step]_vars

(* an unknown name was set on a material that has constants *)
C13_Witness ==
    /\ info.call = "SetMaterialProgramConstant"
    /\ lastSet.name_hash = "nosuch"
    /\ Len(m_Constants) > 0

(* C14: after SetMaterialProgramConstant(name, v, n), ApplyMaterialConstants *)
(* calls the binder for that constant with exactly v[0..n) at the location   *)
(* the name resolves to; the binder is called once per constant, in array    *)
(* order, and the material is not modified.                                  *)
C14_Step ==
    (~info.returned /\ info'.call = "ApplyMaterialConstants") =>
        LET calls == info'.calls
        IN  /\ UNCHANGED <<constVars, attributeVars>>
            /\ Len(calls) = Len(m_Constants)
            /\ \A i \in 1..Len(m_Constants) :
                  /\ calls[i].constant.m_NameHash = m_Constants[i].m_NameHash
                  /\ calls[i].location =
                        GetMaterialConstantLocationOp(m_NameHashToLocation,
                                                      m_Constants[i].m_NameHash)
            /\ \A i \in NamedBy(lastSet.name_hash) :
                  calls[i].constant.m_Values =
                      SubSeq(lastSet.values, 1, lastSet.count)

C14_SetThenApplyRoundTrip == [][C14_Step]_vars

(* the constants were applied after the first of two constants was set *)
C14_Witness ==
    /\ info.call = "ApplyMaterialConstants"
    /\ Len(m_Constants) = 2
    /\ m_Constants[1].m_NameHash = lastSet.name_hash
    /\ lastSet.count = MaxValues

SamplerNames == {m_Samplers[i].m_NameHash : i \in 1..Len(m_Samplers)}

ConstantNames == {m_Constants[i].m_NameHash : i \in 1..Len(m_Constants)}

(* C15: SetMaterialSampler with a name no sampler has returns false and      *)
(* changes no sampler; GetMaterialSamplerNameHash returns 0 for a unit at or *)
(* beyond the sampler count; GetMaterialConstantLocation returns             *)
(* INVALID_UNIFORM_LOCATION for a name that is no uniform of the program.    *)
C15_Step ==
    ~info.returned =>
        /\ (info'.call = "SetMaterialSampler" /\ info'.query \notin SamplerNames)
              => (info'.result = FALSE /\ m_Samplers' = m_Samplers)
        /\ (info'.call = "GetMaterialSamplerNameHash" /\ info'.unit >= Len(m_Samplers))
              => info'.result = ZeroHash
        /\ (info'.call = "GetMaterialConstantLocation"
              /\ info'.query \notin (SamplerNames \cup ConstantNames))
              => info'.result = INVALID_UNIFORM_LOCATION

C15_MissingNamesGiveSentinels == [][C15_Step]_vars

(* a sampler was set under a name that none of the material's samplers has *)
C15_Witness ==
    /\ info.call = "SetMaterialSampler"
    /\ Len(m_Samplers) > 0
    /\ info.query \notin SamplerNames
    /\ info.result = FALSE

KeysReturned == {e.key : e \in registered}

(* C16: RegisterMaterialTagList interns by content: a tag sequence gets the *)
(* key every earlier registration of the same sequence got, whatever was    *)
(* registered in between and whoever calls; when an entry with the computed *)
(* key exists the call returns that key and the registry keeps its entry    *)
(* count and every stored list.                                             *)
C16_Step ==
    (~info.returned /\ info'.call = "RegisterMaterialTagList") =>
        /\ \A e \in registered : e.tags = info'.tags => e.key = info'.result
        /\ info'.result \in DOMAIN m_MaterialTagLists =>
              /\ m_MaterialTagLists' = m_MaterialTagLists
              /\ m_TagListsCapacity' = m_TagListsCapacity
        /\ \A e, f \in registered' : e.tags = f.tags => e.key = f.key

C16_RegisterInternsByContent == [][C16_Step]_vars

(* a sequence registered before is registered again, after another one *)
C16_Witness ==
    /\ info.call = "RegisterMaterialTagList"
    /\ info.tags = <<12, 3>>
    /\ Cardinality(registered) = 2
    /\ Cardinality(DOMAIN m_MaterialTagLists) = 2
    /\ m_TagListKey # info.result
    /\ m_TagListKey \in DOMAIN m_MaterialTagLists

(* C17: GetMaterialTagList with a key no registration has returned does not *)
(* abort, yields a list of count 0 and leaves the registry unchanged; so    *)
(* does key 0, the key ClearMaterialTags sets, while no registration has    *)
(* returned 0.                                                              *)
C17_Step ==
    (~info.returned /\ info'.call = "GetMaterialTagList"
        /\ info'.list_key \notin KeysReturned) =>
        /\ ~info'.abort
        /\ info'.m_Count = 0
        /\ UNCHANGED tagVars

C17_LookupOfUnknownKeyIsEmpty == [][C17_Step]_vars

(* key 0 is looked up after ClearMaterialTags, other lists being registered *)
C17_Witness ==
    /\ info.call = "GetMaterialTagList"
    /\ lastCall = "ClearMaterialTags"
    /\ info.list_key = m_TagListKey
    /\ 0 \notin KeysReturned
    /\ registered # {}
    /\ info.m_Count = 0

StrictlyAscending(list) == \A i \in 1..(Len(list) - 1) : list[i] < list[i + 1]

TagsOf(list) == {list[i] : i \in 1..Len(list)}

(* C18: for a material list and a query list that are both strictly        *)
(* ascending, MatchMaterialTags returns true exactly when the query is not *)
(* empty and each of its tags is in the material list; the unsorted query  *)
(* [5,3] against [1,3,5] gives false.                                      *)
C18_MatchIsSubsetOnSortedLists ==
    info.call = "MatchMaterialTags" =>
        /\ (StrictlyAscending(info.material_tags) /\ StrictlyAscending(info.tags))
              => (info.result <=> (/\ info.tags # <<>>
                                   /\ TagsOf(info.tags) \subseteq TagsOf(info.material_tags)))
        /\ (info.material_tags = <<1, 3, 5>> /\ info.tags = <<5, 3>>)
              => info.result = FALSE

(* [3,5] was matched against [1,3,5] *)
C18_Witness ==
    /\ info.call = "MatchMaterialTags"
    /\ info.material_tags = <<1, 3, 5>>
    /\ info.tags = <<3, 5>>
    /\ info.result = TRUE

(* C19: MatchMaterialTags with an empty query returns false for every      *)
(* material list, the empty one included.                                  *)
C19_EmptyQueryNeverMatches ==
    (info.call = "MatchMaterialTags" /\ Len(info.tags) = 0) => info.result = FALSE

(* the empty query was matched against the empty material list *)
C19_Witness ==
    /\ info.call = "MatchMaterialTags"
    /\ info.tags = <<>>
    /\ info.material_tags = <<>>
    /\ info.result = FALSE

(* type_size(type) * element_count summed over the first n streams *)
RECURSIVE TightlyPacked(_, _)
TightlyPacked(streams, n) ==
    IF n = 0 THEN 0
    ELSE TightlyPacked(streams, n - 1) + GetTypeSize(streams[n].m_Type) * streams[n].m_Size

C21_ReflectionKeepsOrder ==
    /\ Len(m_Uniforms.data) = Len(parse.uniforms)
    /\ \A k \in 1..Len(parse.uniforms) :
          /\ m_Uniforms.data[k].m_Name = parse.uniforms[k]
          /\ m_Uniforms.data[k].m_Index = k - 1
    /\ Len(m_Attributes.data) = Len(parse.attributes)
    /\ \A k \in 1..Len(parse.attributes) :
          /\ m_Attributes.data[k].m_Name = parse.attributes[k]
          /\ m_Attributes.data[k].m_Index = k - 1

(* both lists have grown past 16 elements *)
C21_Witness ==
    /\ parse.phase = "done"
    /\ Len(m_Uniforms.data) > UNIFORMS_CAPACITY
    /\ Len(m_Attributes.data) > BINDINGS_GROW
    /\ m_Uniforms.capacity > UNIFORMS_CAPACITY

(* C22: every copy SetMaterialProgramAttributes makes is clamped to the     *)
(* region of the attribute it is made to, so no copy writes past the end of *)
(* the packed buffer, also for attributes with a value count above 1.       *)
C22_CopyStaysInsideBuffer == ~m_HeapOverrun

\* C23: DeleteRenderTarget deletes every colour attachment texture of the
\* render target, releasing its handle-table slot, before it releases the
\* render target's own slot: from the call to its return the render target's
\* handle is never invalid while one of its attachment handles is valid.
TargetOfDeleted == IF del_rt.rt \in DOMAIN issued THEN HandleOf(del_rt.rt) ELSE 0
AttachmentsOfDeleted ==
    IF del_rt.rt \in DOMAIN issued THEN del_rt.covered \ {del_rt.handle} ELSE {}

C23_NoOrphanAttachment ==
    (pc = "deleting" \/ justDeleted # {}) =>
        (~IsValid(TargetOfDeleted) => \A h \in AttachmentsOfDeleted : ~IsValid(h))

C23_ReleaseStep ==
    (pc = "deleting" /\ pc' = "idle") =>
        /\ IsValid(TargetOfDeleted)
        /\ \A h \in AttachmentsOfDeleted : ~IsValid(h)
        /\ ~WebGPUIsAssetHandleValid(m_AssetHandleContainer', TargetOfDeleted)

C23_AttachmentsBeforeTarget == []C23_NoOrphanAttachment /\ [][C23_ReleaseStep]_vars

C23_Witness ==
    /\ pc = "deleting" /\ ~aborted
    /\ del_rt.i = MAX_BUFFER_COLOR_ATTACHMENTS
    /\ Cardinality(AttachmentsOfDeleted) >= 2
    /\ IsValid(TargetOfDeleted)
    /\ \A h \in AttachmentsOfDeleted : ~IsValid(h)

(* the declaration without its streams of no element, and the place a       *)
(* stream of the declaration takes in it (0-based)                          *)
HasElements(stream) == stream.m_Size > 0
WithoutEmpty(streams) == SelectSeq(streams, HasElements)
PlaceWithoutEmpty(streams, i) == Len(WithoutEmpty(SubSeq(streams, 1, i)))
UnboundSlots == [i \in DOMAIN m_VertexStreams |-> FreeStream]

\* C24: a stream with element count 0 is skipped by the layout builder: it
\* adds nothing to the stride or the running offset, its slot is neither
\* bound by EnableVertexDeclaration nor touched by DisableVertexDeclaration,
\* and the streams after it get the offsets and the stride they get in the
\* declaration without it.
C24_EnableSkipsEmpty ==
    LET streams == info'.streams
        alone   == WebGPUEnableVertexDeclarationOp(UnboundSlots, WithoutEmpty(streams)).slots
    IN  (~info.returned /\ info'.returned /\ info'.call = "EnableVertexDeclaration") =>
           \A i \in 0..(Len(streams) - 1) :
              IF streams[i + 1].m_Size = 0
              THEN m_VertexStreams'[i] = m_VertexStreams[i]
              ELSE ~info'.abort =>
                     m_VertexStreams'[i] = alone[PlaceWithoutEmpty(streams, i)]

C24_DisableSkipsEmpty ==
    LET streams == info'.streams
    IN  (~info.returned /\ info'.returned /\ info'.call = "DisableVertexDeclaration") =>
           \A i \in 0..(Len(streams) - 1) :
              streams[i + 1].m_Size = 0 => m_VertexStreams'[i] = m_VertexStreams[i]

C24_EmptyStreamsSkipped ==
    [][C24_EnableSkipsEmpty /\ C24_DisableSkipsEmpty]_vars

(* an empty stream followed by three floats is enabled over a slot 0 that   *)
(* another declaration has bound: slot 0 keeps that binding, the floats are *)
(* bound at offset 0 with stride 12                                         *)
C24_Witness ==
    /\ info.call = "EnableVertexDeclaration" /\ ~info.abort
    /\ info.streams = <<[m_Type |-> "TYPE_FLOAT", m_Size |-> 0],
                        [m_Type |-> "TYPE_FLOAT", m_Size |-> 3]>>
    /\ m_VertexStreams[0].m_Source # NULL
    /\ m_VertexStreams[1].m_Source = 0
    /\ m_VertexStreams[1].m_Stride = 12

(* a Register call that inserts into a full registry *)
InsertsIntoFull ==
    /\ ~info.returned /\ info'.call = "RegisterMaterialTagList"
    /\ info'.result \notin DOMAIN m_MaterialTagLists
    /\ Cardinality(DOMAIN m_MaterialTagLists) = m_TagListsCapacity

(* the capacities the registry has had when a Register call returned, and *)
(* those of them that follow each other                                    *)
CapacitiesSeen == {e.capacity : e \in registered}
Follows(c, d) == c < d /\ ~\E x \in CapacitiesSeen : c < x /\ x < d

\* C25 as stated: inserting a new tag list into a full registry multiplies
\* the capacity by a constant factor greater than 1 (two growths that
\* follow each other have the same ratio), the insertion succeeds, and the
\* entry count never exceeds the capacity.
C25_GrowsGeometrically ==
    /\ Cardinality(DOMAIN m_MaterialTagLists) <= m_TagListsCapacity
    /\ \A a, b, c \in CapacitiesSeen :
          (Follows(a, b) /\ Follows(b, c)) => b * b = a * c

\* C25 amended: inserting a new tag list into a full registry adds a
\* constant 8 entries to the capacity, the insertion succeeds, and the
\* entry count never exceeds the capacity.
C25_GrowStep ==
    InsertsIntoFull =>
        /\ m_TagListsCapacity' = m_TagListsCapacity + 8
        /\ info'.result \in DOMAIN m_MaterialTagLists'
        /\ ~info'.abort

C25_CountWithinCapacity ==
    Cardinality(DOMAIN m_MaterialTagLists) <= m_TagListsCapacity

C25_GrowsByEight == []C25_CountWithinCapacity /\ [][C25_GrowStep]_vars

(* the 17th list has been inserted into a registry full at capacity 16 *)
C25_Witness ==
    /\ info.call = "RegisterMaterialTagList"
    /\ Cardinality(DOMAIN m_MaterialTagLists) = 17
    /\ m_TagListsCapacity = 24

\* C26: handles carry no generation: once a handle h has been released and
\* a later Store of a resource of the same type has taken h's slot, h is
\* the new resource's handle, resolving h with that type yields the new
\* resource and IsAssetHandleValid(h) is true again.
C26_StaleHandleReachesNewOccupant ==
    \A old \in Released : \A new \in Live :
        (/\ TypeOf(old) = TypeOf(new)
         /\ GetOpaqueHandle(HandleOf(old)) = GetOpaqueHandle(HandleOf(new))) =>
            /\ HandleOf(old) = HandleOf(new)
            /\ Resolve(TypeOf(old), HandleOf(old)) = new
            /\ IsValid(HandleOf(old))

(* a deleted texture and a deleted render target each have a successor of *)
(* their type in their slot                                                *)
C26_Witness ==
    \A kind \in {"Texture", "RenderTarget"} :
        \E old \in Released : \E new \in Live :
            /\ issued[old].kind = kind /\ issued[new].kind = kind
            /\ HandleOf(old) = HandleOf(new)
            /\ Resolve(TypeOf(old), HandleOf(old)) = new

(* query is a subsequence of material: its tags occur in material in the   *)
(* same order, each at a place of its own                                  *)
IsSubsequence(query, material) ==
    \E place \in [1..Len(query) -> 1..Len(material)] :
        /\ \A i \in 1..Len(query) : material[place[i]] = query[i]
        /\ \A i \in 1..(Len(query) - 1) : place[i] < place[i + 1]

\* C27: for arbitrary tag lists, sorted or not, with or without duplicates,
\* MatchMaterialTags returns true exactly when the query is not empty and
\* is a subsequence of the material list; a material tag serves one query
\* tag at most, so the query [3,3] does not match the material list [3].
C27_MatchIsSubsequence ==
    info.call = "MatchMaterialTags" =>
        /\ info.result <=> (/\ info.tags # <<>>
                            /\ IsSubsequence(info.tags, info.material_tags))
        /\ (info.tags = <<3, 3>> /\ info.material_tags = <<3>>) => ~info.result

(* an unsorted query with a duplicate matches an unsorted material list   *)
(* only through the later of two equal material tags                      *)
C27_Witness ==
    /\ info.call = "MatchMaterialTags"
    /\ info.material_tags = <<3, 5, 3>>
    /\ info.tags = <<5, 3>>
    /\ info.result = TRUE

(* what GetMaterialTagList yields for list_key in the registry `lists` *)
Lookup(lists, list_key) ==
    LET r == GetMaterialTagListOp(lists, list_key)
    IN  [m_Count |-> r.m_Count, m_Tags |-> r.m_Tags]

\* C28: round trip of the tag registry: when Register(tags) returns and no
\* different list with the same key was registered before, Lookup of the
\* returned key yields the same count and the same tags in the same order;
\* no later Register call, growing or not, changes what a key yields; and
\* every stored list has at most MAX_MATERIAL_TAG_COUNT tags.
C28_RegisterStep ==
    (/\ ~info.returned /\ info'.call = "RegisterMaterialTagList"
     /\ \A e \in registered : e.key = info'.result => e.tags = info'.tags) =>
        Lookup(m_MaterialTagLists', info'.result)
            = [m_Count |-> Len(info'.tags), m_Tags |-> info'.tags]

C28_EntriesKept ==
    \A list_key \in DOMAIN m_MaterialTagLists :
        Lookup(m_MaterialTagLists', list_key) = Lookup(m_MaterialTagLists, list_key)

C28_StoredCounts ==
    \A list_key \in DOMAIN m_MaterialTagLists :
        /\ m_MaterialTagLists[list_key].m_Count <= MAX_MATERIAL_TAG_COUNT
        /\ m_MaterialTagLists[list_key].m_Count = Len(m_MaterialTagLists[list_key].m_Tags)

SlotsUsed(streams) == {i \in 0..(Len(streams) - 1) : streams[i + 1].m_Size > 0}

\* C29: vertex stream binding protocol: as long as every
\* EnableVertexDeclaration is followed by the DisableVertexDeclaration of
\* the same declaration before the next EnableVertexDeclaration, no
\* assertion of EnableVertexStream fails; after each Disable every slot the
\* declaration uses has a null source and size 0; enabling a declaration
\* that uses a slot an earlier Enable has left bound fails the assertion.
C29_PairedNeverAborts == protocol.paired => ~aborted

C29_DisableStep ==
    (~info.returned /\ info'.returned /\ info'.call = "DisableVertexDeclaration") =>
        \A i \in SlotsUsed(info'.streams) :
            /\ m_VertexStreams'[i].m_Source = NULL
            /\ m_VertexStreams'[i].m_Size = 0

C29_EnableOverBoundSlot ==
    (~info.returned /\ info'.returned /\ info'.call = "EnableVertexDeclaration"
        /\ \E i \in SlotsUsed(info'.streams) : m_VertexStreams[i].m_Source # NULL) =>
        (info'.abort /\ aborted')

C29_BindingProtocol ==
    []C29_PairedNeverAborts /\ [][C29_DisableStep /\ C29_EnableOverBoundSlot]_vars

(* a declaration is enabled on the slots an earlier pair of Enable and     *)
(* Disable has used and freed                                              *)
C29_Witness ==
    /\ info.call = "EnableVertexDeclaration" /\ ~info.abort
    /\ protocol.paired /\ protocol.on /\ protocol.completed
    /\ Cardinality(SlotsUsed(info.streams)) = 2

(* [offset, offset + size) lies within the buffer, the sum taken without  *)
(* wrapping                                                               *)
RangeWithin(offset, size, buffer) ==
    /\ offset.hi = 0 /\ size.hi = 0
    /\ offset.lo + size.lo <= Len(buffer.m_Buffer)

\* C30: SetVertexBufferSubData and SetIndexBufferSubData write only inside
\* the buffer: for all 32-bit offsets and sizes bytes are written only when
\* [offset, offset + size) lies within the buffer and data is not null;
\* otherwise the contents of the buffer are unchanged, also when
\* offset + size wraps around at 2^32.
C30_SubDataStaysInside ==
    info.call \in {"SetVertexBufferSubData", "SetIndexBufferSubData"} =>
        /\ info.copied =>
              (RangeWithin(info.offset, info.size, info.buffer) /\ info.data # "null")
        /\ ~(RangeWithin(info.offset, info.size, info.buffer) /\ info.data # "null") =>
              (info.m_Buffer = info.buffer.m_Buffer /\ ~info.outside /\ ~info.crashed)

====
